---- MODULE Spec2Model ----
(***************************************************************************)
(* A model of the payload normalisation and dispatch code of the           *)
(* Frontend-Tracking-Tool repository:                                      *)
(*   src/src/utils/const.js               parseSync, parseSnowplowEvent,   *)
(*                                        the chunked asynchronous entry   *)
(*   src/src/utils/parseWithWebWorker.js  the worker dispatcher, its own   *)
(*                                        parseSync and parseInChunks      *)
(*   src/src/utils/routerListener.js      initRouterListener and the       *)
(*                                        function it returns              *)
(* Definitions of parseWithWebWorker.js carry the prefix W_ where the name *)
(* is also a name of const.js.                                             *)
(***************************************************************************)
EXTENDS Integers, Sequences, FiniteSets, TLC

VARIABLES
    bodyText,       \* the payload handed to the call
    encodeBase64,   \* const.js: the caller's carrier preference
    opts,           \* parseWithWebWorker.js: the merged options
    env,            \* the host: is Worker defined, does new Worker / postMessage throw
    pc,             \* where the asynchronous call stands
    top,            \* the parsed top-level value the chunk loop walks
    i,              \* the chunk loop's index
    out,            \* the chunk loop's output
    result,         \* what the call's promise resolved with (Pending before)
    syncResult,     \* what the direct parseSync call returned (NotCalled before)
    terminated,     \* parseWithWorker: the single-shot completion token
    timer,          \* parseWithWorker: "none", "armed", "fired", "cleared"
    worker,         \* parseWithWorker: "none", "running", "terminated"
    posted,         \* parseWithWorker: the payload reached the worker
    urlRevoked,     \* parseWithWorker: URL.revokeObjectURL ran
    nFallback,      \* parseWithWorker: how many times the fallback parseSync ran
    nResolve,       \* parseWithWorker: how many times resolve() was called
    lastSource,     \* parseWithWorker: the completion path that last did work
    ignored,        \* parseWithWorker: the last callback that found the token set
    path,           \* the branch the call took: "none", "empty", "worker", "main"
    normalizedOnce, \* what parseSnowplowEvent returned for bodyText (NotCalled before)
    normalizedTwice, \* what it returned for normalizedOnce (NotCalled before)
    original,       \* the value whose encoding bodyText is (NotCalled: not an encoding)
    safeDecoded,    \* what tryDecodeBase64JsonSafe returned for bodyText (NotCalled before)
    wDecoded,       \* what the worker file's tryDecodeBase64Json returned for it
    href,           \* routerListener.js: location.href, as pathname and hash
    listenerState,  \* per initRouterListener call: "none", "active", "cancelled"
    lastUrl,        \* per call: its closure's lastUrl
    savedPush,      \* per call: its closure's _push
    savedReplace,   \* per call: its closure's _replace
    pushState,      \* the function that is history.pushState now
    replaceState,   \* the function that is history.replaceState now
    timers,         \* the calls whose setTimeout(notify, 0) has not fired yet
    calls,          \* the callback invocations of the last step
    lastEvent,      \* the operation the last step was
    cfg,            \* useErrorHandler: the normalized configuration
    now,            \* Date.now()
    recentErrors,   \* useErrorHandler: the Map key -> time, in insertion order
    windowStart,    \* useErrorHandler: the start of the rate window
    countInWindow,  \* useErrorHandler: the calls counted in the rate window
    lastKey,        \* the key of the shouldSendError call of the last step ("": none)
    lastReturn,     \* what that call returned
    prevTrueAt,     \* when a call with that key returned true before (0: never)
    trueAt,         \* per watched key: when a call with it last returned true
    truesInWindow,  \* how many calls returned true since the window was last reset
    nCalls,         \* how many shouldSendError calls the model has made
    nTicks,         \* how many times the model has moved the clock
    nFresh,         \* how many keys never seen before were reported
    onerror,        \* window.onerror: the page's own handler, or an instance's wrapper
    errorListeners, \* the instances whose handler listens to 'error' on window
    rejectionListeners, \* the same for 'unhandledrejection'
    installed,      \* per handler instance: _installed
    origOnError,    \* per handler instance: _origOnError
    reached,        \* the instances that the last error on window reached
    handlerOp,      \* the last call made on a handler instance, or error on window
    tracker,        \* FrontendTracker: the fields of the instance
    trackerEnv,     \* FrontendTracker: its options, and the kind of router it is given
    routerHooks,    \* how many afterEach hooks of the instance the router holds
    pageListeners,  \* how many router listeners of the instance are active
    pageViews,      \* how many page views the last step reported
    trackerOp,      \* the operation the last step was
    nStarts,        \* how many times page tracking was started
    initRun,        \* what the init calls since the last stop did, in counts
    fetchEnv,       \* customFetch: its arguments, options and what its stages do
    fetchRun        \* customFetch: where the call is, its locals, the fetches issued

vars == <<bodyText, encodeBase64, opts, env, pc, top, i, out, result, syncResult,
          terminated, timer, worker, posted, urlRevoked, nFallback, nResolve,
          lastSource, ignored, path, normalizedOnce, normalizedTwice,
          original, safeDecoded, wDecoded, href, listenerState, lastUrl, savedPush,
          savedReplace, pushState, replaceState, timers, calls, lastEvent,
          cfg, now, recentErrors, windowStart, countInWindow, lastKey, lastReturn,
          prevTrueAt, trueAt, truesInWindow, nCalls, nTicks, nFresh,
          onerror, errorListeners, rejectionListeners, installed, origOnError, reached,
          handlerOp,
          tracker, trackerEnv, routerHooks, pageListeners, pageViews, trackerOp, nStarts,
          initRun,
          fetchEnv, fetchRun>>

(***************************************************************************)
(* JavaScript values.  Every value is a record with a tag t; the other     *)
(* field is named after the tag so that values of different types are      *)
(* never compared field by field.                                          *)
(***************************************************************************)
Undefined == [t |-> "undefined"]
Null == [t |-> "null"]
Num(n) == [t |-> "number", n |-> n]
NaN == [t |-> "number", nan |-> TRUE]
\* Date.now(): the wall clock at parse time, a number the model does not fix
DateNow == [t |-> "number", clock |-> TRUE]
Bool(b) == [t |-> "boolean", b |-> b]
Str(s) == [t |-> "string", s |-> s]
Arr(xs) == [t |-> "array", items |-> xs]
Obj(fs) == [t |-> "object", f |-> fs]
\* an exception escaping an expression (TypeError, SyntaxError, ...)
Throw == [t |-> "throw"]

IsNullish(v) == v.t \in {"undefined", "null"}
IsArray(v) == v.t = "array"

\* typeof v
TypeOf(v) ==
    CASE v.t = "undefined" -> "undefined"
      [] v.t = "number" -> "number"
      [] v.t = "boolean" -> "boolean"
      [] v.t = "string" -> "string"
      [] OTHER -> "object"

\* ToBoolean(v)
Truthy(v) ==
    CASE v.t = "undefined" -> FALSE
      [] v.t = "null" -> FALSE
      [] v.t = "throw" -> FALSE
      [] v.t = "number" -> IF "n" \in DOMAIN v THEN v.n # 0 ELSE "clock" \in DOMAIN v
      [] v.t = "boolean" -> v.b
      [] v.t = "string" -> v.s # ""
      [] OTHER -> TRUE

Has(v, k) == v.t = "object" /\ v.f # <<>> /\ k \in DOMAIN v.f

\* v[k] for a property name k: a TypeError on null and undefined
Get(v, k) ==
    CASE v.t = "throw" -> Throw
      [] IsNullish(v) -> Throw
      [] Has(v, k) -> v.f[k]
      [] OTHER -> Undefined

\* a !== null ? a : b
NonNullOr(a, b) == IF a # Null THEN a ELSE b

\* a || b
Or(a, b) == IF a = Throw THEN Throw ELSE IF Truthy(a) THEN a ELSE b
\* a && b
And(a, b) == IF a = Throw THEN Throw ELSE IF Truthy(a) THEN b ELSE a

\* an object literal: evaluating any property that throws, throws
MkObj(fs) == IF \E k \in DOMAIN fs : fs[k] = Throw THEN Throw ELSE Obj(fs)

\* an array of results: Throw if building any element threw
MkArr(xs) == IF \E k \in 1..Len(xs) : xs[k] = Throw THEN Throw ELSE Arr(xs)

KeepsInFilter(x) == Truthy(x) \/ x = Throw
\* xs.filter(Boolean) on a sequence (an element that threw is kept, and poisons the result)
SelectTruthy(xs) == SelectSeq(xs, KeepsInFilter)

(***************************************************************************)
(* Strings: the built-ins the code calls, computed character by character. *)
(***************************************************************************)
CharAt(s, k) == SubSeq(s, k, k)
IsSpace(c) == c \in {" ", "\t", "\n", "\r"}

RECURSIVE trimStart(_)
trimStart(s) ==
    IF Len(s) > 0 /\ IsSpace(CharAt(s, 1)) THEN trimStart(SubSeq(s, 2, Len(s))) ELSE s

RECURSIVE trimEnd(_)
trimEnd(s) ==
    IF Len(s) > 0 /\ IsSpace(CharAt(s, Len(s))) THEN trimEnd(SubSeq(s, 1, Len(s) - 1)) ELSE s

\* String.prototype.trim
trim(s) == trimEnd(trimStart(s))
startsWith(s, p) == Len(s) >= Len(p) /\ SubSeq(s, 1, Len(p)) = p
endsWith(s, p) == Len(s) >= Len(p) /\ SubSeq(s, Len(s) - Len(p) + 1, Len(s)) = p

RECURSIVE replaceAll(_, _, _)
\* s.replace(/a/g, b) for one-character a
replaceAll(s, a, b) ==
    IF Len(s) = 0 THEN ""
    ELSE (IF CharAt(s, 1) = a THEN b ELSE CharAt(s, 1)) \o replaceAll(SubSeq(s, 2, Len(s)), a, b)

RECURSIVE countChar(_, _)
\* (s.match(/c/g) || []).length
countChar(s, c) ==
    IF Len(s) = 0 THEN 0
    ELSE (IF CharAt(s, 1) = c THEN 1 ELSE 0) + countChar(SubSeq(s, 2, Len(s)), c)

Digits == {"0", "1", "2", "3", "4", "5", "6", "7", "8", "9"}
Letters ==
    {"A", "B", "C", "D", "E", "F", "G", "H", "I", "J", "K", "L", "M",
     "N", "O", "P", "Q", "R", "S", "T", "U", "V", "W", "X", "Y", "Z",
     "a", "b", "c", "d", "e", "f", "g", "h", "i", "j", "k", "l", "m",
     "n", "o", "p", "q", "r", "s", "t", "u", "v", "w", "x", "y", "z"}

(***************************************************************************)
(* Host built-ins (not code of the repository), given by what they return  *)
(* on the texts the model uses.                                            *)
(***************************************************************************)
EvPv == Obj([e |-> Str("pv")])
EvSe == Obj([e |-> Str("se")])

\* JSON.parse on a text without surrounding white space
JSONparseTrimmed(t) ==
    CASE t = "{\"e\":\"pv\"}" -> EvPv
      [] t = "[{\"e\":\"pv\"},{\"e\":\"se\"}]" -> Arr(<<EvPv, EvSe>>)
      [] t = "[{\"e\":\"pv\"}]" -> Arr(<<EvPv>>)
      [] t = "\"abc\"" -> Str("abc")
      [] t = "5" -> Num(5)
      [] t = "null" -> Null
      [] t = "[1]" -> Arr(<<Num(1)>>)
      [] t = "{\"a\":1}" -> Obj([a |-> Num(1)])
      [] t = "\"þ\"" -> Str("þ")
      [] t = "\"ÿ\"" -> Str("ÿ")
      [] t = "\"�\"" -> Str("�")
      [] t = "{\"schema\":\"s\",\"data\":[{\"e\":\"pv\"},5]}" ->
            Obj([schema |-> Str("s"), data |-> Arr(<<EvPv, Num(5)>>)])
      [] t = "{\"schema\":\"s\",\"data\":{\"k\":1}}" ->
            Obj([schema |-> Str("s"), data |-> Obj([k |-> Num(1)])])
      [] OTHER -> Throw

\* JSON.parse on a text: the value, or Throw for a SyntaxError
JSONparseText(s) == JSONparseTrimmed(trim(s))

\* JSON.parse(v): the argument is converted to a string first
JSONparse(v) ==
    CASE v.t = "string" -> JSONparseText(v.s)
      [] v.t = "number" -> v
      [] v.t = "boolean" -> v
      [] v.t = "null" -> Null
      [] OTHER -> Throw

Base64Std == Letters \cup Digits \cup {"+", "/"}

\* the text without the one or two "=" that end a text of 4n characters
StripPadding(s) ==
    IF Len(s) % 4 = 0 /\ endsWith(s, "==") THEN SubSeq(s, 1, Len(s) - 2)
    ELSE IF Len(s) % 4 = 0 /\ endsWith(s, "=") THEN SubSeq(s, 1, Len(s) - 1)
    ELSE s

\* bytes that are neither valid UTF-8 nor JSON text
Mojibake == "?"

\* A binary string has one character per byte.  Beyond ASCII the model has the
\* bytes 0xC3 (the lead byte of a two-byte sequence), 0xBE and 0xBF
\* (continuation bytes) and 0xFF (a byte no UTF-8 text contains).
LeadByte == "Ã"
ContinuationBytes == {"¾", "¿"}
HighBytes == {LeadByte, "ÿ"} \cup ContinuationBytes
\* U+00C0 + the low six bits of the continuation byte
TwoByteChar(c) == IF c = "¾" THEN "þ" ELSE "ÿ"
ReplacementChar == "�"

IsTwoByteAt(bin, k) ==
    /\ CharAt(bin, k) = LeadByte
    /\ k < Len(bin)
    /\ CharAt(bin, k + 1) \in ContinuationBytes

RECURSIVE validUtf8(_)
validUtf8(bin) ==
    IF Len(bin) = 0 THEN TRUE
    ELSE IF CharAt(bin, 1) \notin HighBytes THEN validUtf8(SubSeq(bin, 2, Len(bin)))
    ELSE IF IsTwoByteAt(bin, 1) THEN validUtf8(SubSeq(bin, 3, Len(bin)))
    ELSE FALSE

RECURSIVE Utf8Decode(_)
\* the text of the bytes; a byte that is part of no sequence becomes U+FFFD
Utf8Decode(bin) ==
    IF Len(bin) = 0 THEN ""
    ELSE IF CharAt(bin, 1) \notin HighBytes
         THEN CharAt(bin, 1) \o Utf8Decode(SubSeq(bin, 2, Len(bin)))
    ELSE IF IsTwoByteAt(bin, 1)
         THEN TwoByteChar(CharAt(bin, 2)) \o Utf8Decode(SubSeq(bin, 3, Len(bin)))
    ELSE ReplacementChar \o Utf8Decode(SubSeq(bin, 2, Len(bin)))

\* the bytes a base64 text without padding stands for
atobStripped(b) ==
    IF Len(b) % 4 = 1 \/ \E k \in 1..Len(b) : CharAt(b, k) \notin Base64Std THEN Throw
    ELSE CASE b = "" -> Str("")
           [] b = "eyJlIjoicHYifQ" -> Str("{\"e\":\"pv\"}")
           [] b = "eyJzY2hlbWEiOiJzIiwiZGF0YSI6eyJrIjoxfX0" ->
                 Str("{\"schema\":\"s\",\"data\":{\"k\":1}}")
           [] b = "ImFiYyI" -> Str("\"abc\"")
           [] b = "NQ" -> Str("5")
           [] b = "WzFd" -> Str("[1]")
           [] b = "bnVsbA" -> Str("null")
           [] b = "YWJj" -> Str("abc")
           [] b = "IsO+Ig" -> Str("\"Ã¾\"")
           [] b = "IsO/Ig" -> Str("\"Ã¿\"")
           [] b = "Iv8i" -> Str("\"ÿ\"")
           [] OTHER -> Str(Mojibake)

\* atob(s): the decoded binary string, or Throw (InvalidCharacterError)
atob(s) == atobStripped(StripPadding(s))

\* new TextDecoder().decode(bytes): invalid bytes come out as replacement
\* characters, not as an error
TextDecode(bin) == Str(Utf8Decode(bin))

\* decodeURIComponent of the percent-encoded bytes: URIError on invalid UTF-8
decodeURIComponentBytes(bin) ==
    IF bin = Mojibake \/ ~validUtf8(bin) THEN Throw ELSE Str(Utf8Decode(bin))

RECURSIVE NumLen(_)
NumLen(n) == IF n < 10 THEN 1 ELSE 1 + NumLen(n \div 10)

RECURSIVE JsonLen(_)
RECURSIVE JsonLenItems(_, _, _)
RECURSIVE JsonLenFields(_, _)
\* JSON.stringify(v).length; a value inside an array that has no JSON form is "null"
JsonLen(v) ==
    CASE v.t = "null" -> 4
      [] v.t = "undefined" -> 4
      [] v.t = "number" -> IF "n" \in DOMAIN v THEN NumLen(v.n) ELSE 4
      [] v.t = "boolean" -> IF v.b THEN 4 ELSE 5
      [] v.t = "string" -> Len(v.s) + 2 + countChar(v.s, "\"") + countChar(v.s, "\\")
      [] v.t = "array" ->
            2 + JsonLenItems(v.items, 1, Len(v.items))
              + (IF Len(v.items) > 1 THEN Len(v.items) - 1 ELSE 0)
      [] OTHER ->
            IF v.f = <<>> THEN 2
            ELSE 2 + JsonLenFields(v.f, DOMAIN v.f) + Cardinality(DOMAIN v.f) - 1
\* the sum over xs[lo..hi], by halves
JsonLenItems(xs, lo, hi) ==
    IF lo > hi THEN 0
    ELSE IF lo = hi THEN JsonLen(xs[lo])
    ELSE JsonLenItems(xs, lo, (lo + hi) \div 2) + JsonLenItems(xs, (lo + hi) \div 2 + 1, hi)
JsonLenFields(f, ks) ==
    IF ks = {} THEN 0
    ELSE Len(CHOOSE x \in ks : TRUE) + 3 + JsonLen(f[CHOOSE x \in ks : TRUE])
         + JsonLenFields(f, ks \ {CHOOSE x \in ks : TRUE})

\* new TextEncoder().encode(str).length, for the ASCII texts of the model
Utf8Length(s) == Len(s)

(***************************************************************************)
(* src/src/utils/const.js                                                  *)
(* A value that the code computes once and reads several times is passed   *)
(* to a helper as an argument.                                             *)
(***************************************************************************)
RECURSIVE stripEquals(_)
stripEquals(s) == IF endsWith(s, "=") THEN stripEquals(SubSeq(s, 1, Len(s) - 1)) ELSE s

Base64UrlChars == Letters \cup Digits \cup {"-", "_"}
allBase64Url(core) == Len(core) >= 1 /\ \A k \in 1..Len(core) : CharAt(core, k) \in Base64UrlChars
\* /^[A-Za-z0-9\-_]+=*$/.test(t)
Base64UrlRe(t) == allBase64Url(stripEquals(t))

MinBase64Len == 8

likelyBase64Text(t) == IF Len(t) < MinBase64Len THEN FALSE ELSE Base64UrlRe(t)
isLikelyBase64(v) == IF v.t # "string" THEN FALSE ELSE likelyBase64Text(trim(v.s))

likelyJsonText(t) == startsWith(t, "{") \/ startsWith(t, "[")
isLikelyJsonString(v) == IF v.t # "string" THEN FALSE ELSE likelyJsonText(trim(v.s))

\* try { return x } catch (e) { return null }
CatchNull(r) == IF r = Throw THEN Null ELSE r

tryParseJsonSafe(v) == CatchNull(JSONparse(v))

\* binaryStringToUtf8 reading the binary string as Latin-1 text
Mut_binaryStringToUtf8(bin) == Str(bin)

binaryStringToUtf8(bin) ==
    IF env.textCodec THEN TextDecode(bin) ELSE decodeURIComponentBytes(bin)

RECURSIVE padTo4(_)
\* while (t.length % 4) t += '='
padTo4(s) == IF Len(s) % 4 # 0 THEN padTo4(s \o "=") ELSE s

\* the part of tryDecodeBase64JsonSafe after atob
decodeBinary(bin) ==
    IF bin = Throw THEN Null
    ELSE IF ~Truthy(bin) THEN Null
    ELSE CatchNull(tryParseJsonSafe(binaryStringToUtf8(bin.s)))

tryDecodeBase64JsonSafe(v) ==
    IF v.t # "string" THEN Null
    ELSE IF Len(v.s) = 0 THEN Null
    ELSE decodeBinary(atob(padTo4(replaceAll(replaceAll(v.s, "-", "+"), "_", "/"))))

tryNormalize(cand) ==
    IF IsNullish(cand) THEN Null
    ELSE IF TypeOf(cand) = "object" THEN cand
    ELSE IF TypeOf(cand) # "string" THEN Null
    ELSE IF isLikelyJsonString(cand)
         THEN Or(tryParseJsonSafe(cand), Or(tryDecodeBase64JsonSafe(cand), Null))
    ELSE IF isLikelyBase64(cand)
         THEN Or(tryDecodeBase64JsonSafe(cand), tryParseJsonSafe(cand))
    ELSE tryParseJsonSafe(cand)

RECURSIVE digitsValue(_)
digitsValue(s) ==
    IF Len(s) = 0 THEN 0
    ELSE 10 * digitsValue(SubSeq(s, 1, Len(s) - 1))
         + (CHOOSE d \in 0..9 : CharAt("0123456789", d + 1) = CharAt(s, Len(s)))

numberOfText(t) ==
    IF \A k \in 1..Len(t) : CharAt(t, k) \in Digits THEN Num(digitsValue(t)) ELSE NaN

\* Number(v); of the numeric texts only the unsigned decimal integers are modelled
ToNumber(v) ==
    CASE v.t = "number" -> v
      [] v.t = "null" -> Num(0)
      [] v.t = "boolean" -> IF v.b THEN Num(1) ELSE Num(0)
      [] v.t = "string" -> numberOfText(trim(v.s))
      [] v.t = "throw" -> Throw
      [] OTHER -> NaN

\* the fields every branch of parseSnowplowEvent spreads into its result
common(ev) ==
    [eid |-> Or(Get(ev, "eid"), Null),
     ts |-> IF Truthy(Get(ev, "dtm")) THEN ToNumber(Get(ev, "dtm"))
            ELSE IF Truthy(Get(ev, "timestamp")) THEN ToNumber(Get(ev, "timestamp"))
            ELSE IF Get(ev, "dtm") = Throw THEN Throw ELSE DateNow,
     vid |-> Or(Get(ev, "vid"), Null),
     sid |-> Or(Get(ev, "sid"), Null),
     p |-> Or(Get(ev, "p"), Null),
     url |-> Or(Or(Get(ev, "url"), Get(ev, "pageUrl")), Null),
     raw |-> ev]

RECURSIVE firstNormalized(_, _)
RECURSIVE breakIfTruthy(_, _)
\* the carrier loop: the first tryNormalize result that is truthy, else the last one
firstNormalized(ordered, last) ==
    IF ordered = <<>> THEN last
    ELSE breakIfTruthy(tryNormalize(Head(ordered)), Tail(ordered))
breakIfTruthy(n, rest) == IF Truthy(n) THEN n ELSE firstNormalized(rest, n)

\* the third carrier: ev.unstruct_event || ev.unstruct || ev.ue
unstructCarrier(ev) == Or(Or(Get(ev, "unstruct_event"), Get(ev, "unstruct")), Get(ev, "ue"))

carrierOrder(ev, enc) ==
    IF enc = Bool(TRUE) THEN <<Get(ev, "ue_px"), Get(ev, "ue_pr"), unstructCarrier(ev)>>
    ELSE IF (~Truthy(enc)) = FALSE
         THEN <<Get(ev, "ue_pr"), Get(ev, "ue_px"), unstructCarrier(ev)>>
    ELSE IF Truthy(Get(ev, "ue_pr")) /\ isLikelyJsonString(Get(ev, "ue_pr"))
         THEN <<Get(ev, "ue_pr"), Get(ev, "ue_px"), unstructCarrier(ev)>>
    ELSE IF Truthy(Get(ev, "ue_px")) /\ isLikelyBase64(Get(ev, "ue_px"))
         THEN <<Get(ev, "ue_px"), Get(ev, "ue_pr"), unstructCarrier(ev)>>
    ELSE <<Get(ev, "ue_pr"), Get(ev, "ue_px"), unstructCarrier(ev)>>

\* if (!normalized && unstruct) normalized = tryNormalize(unstruct) || null
lastResort(n0, unstruct) ==
    IF ~Truthy(n0) /\ Truthy(unstruct) THEN Or(tryNormalize(unstruct), Null) ELSE n0

\* normalized.schema || (normalized.self && normalized.self.schema) || null
schemaOf(n) ==
    Or(Or(Get(n, "schema"), And(Get(n, "self"), Get(Get(n, "self"), "schema"))), Null)

\* normalized.data || (normalized.self && normalized.self.data) || normalized
payloadOf(n) ==
    Or(Or(Get(n, "data"), And(Get(n, "self"), Get(Get(n, "self"), "data"))), n)

\* the second unwrapping: payload.data when it is there and typeof 'object'
unwrapOnce(p0) ==
    IF Truthy(p0) /\ TypeOf(p0) = "object"
       /\ Get(p0, "data") # Undefined /\ TypeOf(Get(p0, "data")) = "object"
    THEN Get(p0, "data") ELSE p0

unstructFrom(ev, normalized) ==
    IF Truthy(normalized)
    THEN MkObj(common(ev) @@ [eventType |-> Str("unstruct"), schema |-> schemaOf(normalized),
                               payload |-> unwrapOnce(payloadOf(normalized))])
    ELSE MkObj(common(ev) @@ [eventType |-> Str("unstruct"), schema |-> Null,
                               payload |-> ev])

unstructEvent(ev, enc) ==
    unstructFrom(ev, lastResort(firstNormalized(carrierOrder(ev, enc), Null),
                                unstructCarrier(ev)))

\* se_pr: a string is replaced by tryParseJsonSafe(se_pr) || se_pr
parsedProperty(se_pr) ==
    IF TypeOf(se_pr) = "string" THEN Or(tryParseJsonSafe(se_pr), se_pr) ELSE se_pr

\* parseSnowplowEvent with the fallback branch alone, reading event before e
Mut_parseSnowplowEventBody(ev, enc) ==
    MkObj(common(ev) @@
          [eventType |-> Or(Or(Get(ev, "event"), Get(ev, "e")), Str("unknown")),
           payload |-> ev])

parseSnowplowEventBody(ev, enc) ==
    IF Get(ev, "e") = Str("se") \/ Get(ev, "e") = Str("structured_event")
    THEN MkObj(common(ev) @@
               [eventType |-> Str("structured_event"),
                category |-> Or(Or(Get(ev, "se_ca"), Get(ev, "category")), Null),
                action |-> Or(Or(Get(ev, "se_ac"), Get(ev, "action")), Null),
                label |-> Or(Get(ev, "se_la"), Null),
                property |-> Or(parsedProperty(Get(ev, "se_pr")), Null)])
    ELSE IF Get(ev, "e") = Str("ue") \/ Get(ev, "e") = Str("unstruct")
    THEN unstructEvent(ev, enc)
    ELSE IF Get(ev, "event") = Str("page_view") \/ Get(ev, "e") = Str("pv")
    THEN MkObj(common(ev) @@
               [eventType |-> Str("page_view"),
                title |-> Or(Or(Get(ev, "pageTitle"), Get(ev, "dt")), Null),
                url |-> Or(Or(Get(ev, "pageUrl"), Get(ev, "url")), Null),
                referrer |-> Or(Or(Get(ev, "refr"), Get(ev, "referrer")), Null)])
    ELSE MkObj(common(ev) @@
               [eventType |-> Or(Or(Get(ev, "e"), Get(ev, "event")), Str("unknown")),
                payload |-> ev])

\* parseSnowplowEvent without its first line
Mut_parseSnowplowEvent(ev, enc) == parseSnowplowEventBody(ev, enc)

parseSnowplowEvent(ev, enc) ==
    IF ~Truthy(ev) \/ TypeOf(ev) # "object" THEN Null
    ELSE parseSnowplowEventBody(ev, enc)

\* mapEvents without the filter
Mut_mapEvents(items, enc) ==
    MkArr([k \in 1..Len(items) |-> parseSnowplowEvent(items[k], enc)])

\* items.map(ev => parseSnowplowEvent(ev, enc)).filter(Boolean)
mapEvents(items, enc) ==
    MkArr(SelectTruthy([k \in 1..Len(items) |-> parseSnowplowEvent(items[k], enc)]))

\* the top-level { unstruct_event } wrapper, from its normalized carrier
wrapperEvent(parsed, ud, normalized) ==
    MkArr(<<MkObj([eventType |-> Str("unstruct"),
                   schema |-> Or(Or(Get(ud, "schema"),
                                    And(normalized, Get(normalized, "schema"))), Null),
                   payload |-> Or(And(normalized, Or(Get(normalized, "data"), normalized)),
                                  ud),
                   raw |-> parsed])>>)

isEnvelope(parsed) == Truthy(Get(parsed, "schema")) /\ IsArray(Get(parsed, "data"))

\* parseSync from the point where parsed is no longer a string to decode
parseParsed(parsed, enc) ==
    IF Truthy(parsed) /\ TypeOf(parsed) = "object"
    THEN IF isEnvelope(parsed) \/ IsArray(parsed)
         THEN mapEvents(IF isEnvelope(parsed) THEN Get(parsed, "data").items
                        ELSE parsed.items, enc)
         ELSE IF Truthy(Get(parsed, "unstruct_event"))
         THEN wrapperEvent(parsed, Get(parsed, "unstruct_event"),
                  Or(Or(Or(Get(Get(parsed, "unstruct_event"), "data"),
                           tryDecodeBase64JsonSafe(Or(Get(parsed, "ue_px"), Str("")))),
                        tryParseJsonSafe(Or(Get(parsed, "ue_pr"), Str("")))),
                     Get(parsed, "unstruct_event")))
         ELSE MkArr(<<parseSnowplowEvent(parsed, enc)>>)
    ELSE MkArr(<<MkObj([eventType |-> Str("unknown"), payload |-> parsed])>>)

\* a text that decoded to nothing: parseSync returns one raw_text event for it
RawText(t) == [t |-> "rawtext", s |-> t]

jsonShaped(t) ==
    (startsWith(t, "{") /\ endsWith(t, "}")) \/ (startsWith(t, "[") /\ endsWith(t, "]"))

\* the string branch of parseSync, for the trimmed text t
decodeText(t) ==
    IF jsonShaped(t)
    THEN NonNullOr(tryParseJsonSafe(Str(t)),
                   NonNullOr(tryDecodeBase64JsonSafe(Str(t)), RawText(t)))
    ELSE NonNullOr(tryDecodeBase64JsonSafe(Str(t)),
                   NonNullOr(tryParseJsonSafe(Str(t)), RawText(t)))

rawTextEvents(t) == Arr(<<Obj([eventType |-> Str("raw_text"), payload |-> Str(t)])>>)

afterDecode(d, enc) == IF d.t = "rawtext" THEN rawTextEvents(d.s) ELSE parseParsed(d, enc)

parseSync(body, enc) ==
    IF IsNullish(body) THEN Arr(<<>>)
    ELSE afterDecode(IF TypeOf(body) = "string" THEN decodeText(trim(body.s)) ELSE body, enc)

(***************************************************************************)
(* The payloads the calls are made with.                                   *)
(***************************************************************************)
MaxArrayLen == 3

ElSe == Obj([e |-> Str("se"), se_ca |-> Str("button"), se_ac |-> Str("click"),
             se_la |-> Str("signup")])
ElUe == Obj([e |-> Str("ue"), ue_pr |-> Str("{\"schema\":\"s\",\"data\":{\"k\":1}}")])
ElUePx == Obj([e |-> Str("ue"), ue_px |-> Str("eyJzY2hlbWEiOiJzIiwiZGF0YSI6eyJrIjoxfX0")])
ElDtm == Obj([event |-> Str("page_view"), dtm |-> Str("1700"), pageUrl |-> Str("/a")])
ElUnknown == Obj([x |-> Num(1)])
\* a self-describing event whose carrier is an object with a nested data of null
ElUeNullData ==
    Obj([e |-> Str("ue"),
         unstruct |-> Obj([schema |-> Str("s"), data |-> Obj([data |-> Null])])])
Wrapper == Obj([unstruct_event |-> Obj([schema |-> Str("s"), data |-> Obj([k |-> Num(1)])])])

\* array elements: events of each kind and values that are not objects
Elems == {EvPv, ElSe, ElUe, Null, Num(5)}
ElemCycle ==
    <<EvPv, ElSe, Null, ElUe, Num(5), ElUePx, Str("x"), ElDtm, ElUnknown, Arr(<<>>)>>

SeqsUpTo(S, n) == UNION {[1..k -> S] : k \in 0..n}

\* an array of n elements running through ElemCycle
LongArray(n) == [k \in 1..n |-> ElemCycle[(k % Len(ElemCycle)) + 1]]

Texts ==
    {"", "   ", "not-json-not-base64###", "  padded text ", "{bad}", "[bad]",
     "{\"e\":\"pv\"}", "[{\"e\":\"pv\"},{\"e\":\"se\"}]", " [{\"e\":\"pv\"}] ",
     "\"abc\"", "5", "null", "[1]",
     "{\"schema\":\"s\",\"data\":[{\"e\":\"pv\"},5]}",
     "eyJlIjoicHYifQ==", "eyJlIjoicHYifQ", "ImFiYyI=", "NQ==", "WzFd"}

Scalars == {Undefined, Null, Num(0), Num(5), NaN, Bool(TRUE), Bool(FALSE)}

SmallArrays == {Arr(xs) : xs \in SeqsUpTo(Elems, MaxArrayLen)}
Envelopes == {Obj([schema |-> Str("s"), data |-> a]) : a \in SmallArrays}
SingleObjects ==
    {EvPv, ElSe, ElUe, ElUePx, ElDtm, ElUnknown, ElUeNullData, Wrapper,
     Obj([schema |-> Str(""), data |-> Arr(<<EvPv, ElSe>>)]),
     Obj([data |-> Arr(<<EvPv>>)])}

(***************************************************************************)
(* const.js: the asynchronous entry, transformSnowplowPayload, one action  *)
(* from each suspension point to the next.                                 *)
(***************************************************************************)
chunkSize == 50

LongArrays == {Arr(LongArray(n)) : n \in {chunkSize, chunkSize + 1, 2 * chunkSize + 1}}

ParsePayloads ==
    Scalars \cup {Str(s) : s \in Texts} \cup SmallArrays \cup Envelopes
        \cup SingleObjects \cup LongArrays

Pending == [t |-> "pending"]
NotCalled == [t |-> "notcalled"]
NoOpts == [useWorker |-> FALSE, workerThresholdEvents |-> 0, workerThresholdBytes |-> 0,
           chunkSize |-> chunkSize]

Min(a, b) == IF a < b THEN a ELSE b

\* the session fields of parseWithWorker, untouched by const.js
NoSession ==
    /\ terminated = FALSE /\ timer = "none" /\ worker = "none" /\ posted = FALSE
    /\ urlRevoked = FALSE /\ nFallback = 0 /\ nResolve = 0 /\ lastSource = "none"
    /\ ignored = "none" /\ path = "none"

sessionVars == <<terminated, timer, worker, posted, urlRevoked, nFallback, nResolve,
                 lastSource, ignored, path>>
inputVars == <<bodyText, encodeBase64, opts, env>>
eventVars == <<normalizedOnce, normalizedTwice>>
\* the variables the parsing and dispatching calls leave alone
decodeVars == <<original, safeDecoded, wDecoded>>
routerVars == <<href, listenerState, lastUrl, savedPush, savedReplace, pushState,
                replaceState, timers, calls, lastEvent>>
errorVars == <<cfg, now, recentErrors, windowStart, countInWindow, lastKey, lastReturn,
               prevTrueAt, trueAt, truesInWindow, nCalls, nTicks, nFresh>>
handlerVars == <<onerror, errorListeners, rejectionListeners, installed, origOnError,
                 reached, handlerOp>>
trackerVars == <<tracker, trackerEnv, routerHooks, pageListeners, pageViews, trackerOp,
                 nStarts, initRun>>
fetchVars == <<fetchEnv, fetchRun>>
hookVars == <<errorVars, handlerVars, trackerVars, fetchVars>>
otherVars == <<eventVars, decodeVars, routerVars, hookVars>>
\* no event has been normalized on its own
EventIdle == normalizedOnce = NotCalled /\ normalizedTwice = NotCalled
DecodeIdle == original = NotCalled /\ safeDecoded = NotCalled /\ wDecoded = NotCalled

MaxListeners == 2
Listeners == 1..MaxListeners
\* history.pushState and history.replaceState are the browser's own function, or
\* the wrapper that the k-th initRouterListener call installed
Native == 0
RouterIdle ==
    /\ href = [pathname |-> "/a", hash |-> ""]
    /\ listenerState = [k \in Listeners |-> "none"]
    /\ lastUrl = [k \in Listeners |-> ""]
    /\ savedPush = [k \in Listeners |-> Native]
    /\ savedReplace = [k \in Listeners |-> Native]
    /\ pushState = Native /\ replaceState = Native
    /\ timers = {}
    /\ calls = <<>>
    /\ lastEvent = "none"

\* no error handler has been made
ErrorIdle ==
    /\ cfg = <<>>
    /\ now = 0
    /\ recentErrors = <<>>
    /\ windowStart = 0 /\ countInWindow = 0
    /\ lastKey = "" /\ lastReturn = FALSE /\ prevTrueAt = 0
    /\ trueAt = <<>>
    /\ truesInWindow = 0
    /\ nCalls = 0 /\ nTicks = 0 /\ nFresh = 0

MaxHandlers == 3
Handlers == 1..MaxHandlers
\* window.onerror as the page had it before any setup
PageOnError == 0
\* no handler instance is installed
HandlersIdle ==
    /\ onerror = PageOnError
    /\ errorListeners = {} /\ rejectionListeners = {}
    /\ installed = [k \in Handlers |-> FALSE]
    /\ origOnError = [k \in Handlers |-> PageOnError]
    /\ reached = {}
    /\ handlerOp = [op |-> "none", k |-> 0]

\* the fields of a FrontendTracker after its constructor
\* no init call yet, and no call of the page to start or stop page tracking
NoInits == [created |-> 0, setups |-> 0, views |-> 0, manual |-> FALSE]

NewTracker ==
    [inited |-> FALSE, started |-> FALSE, routerOff |-> "null", routerHook |-> FALSE,
     routerInstance |-> FALSE, errorSetup |-> FALSE]
\* no tracker has been made
TrackerIdle ==
    /\ tracker = NewTracker
    /\ trackerEnv = <<>>
    /\ routerHooks = 0 /\ pageListeners = 0 /\ pageViews = 0
    /\ trackerOp = "none"
    /\ nStarts = 0
    /\ initRun = NoInits
\* customFetch has not been called
FetchIdle == fetchEnv = <<>> /\ fetchRun = <<>>
HooksIdle == ErrorIdle /\ HandlersIdle /\ TrackerIdle /\ FetchIdle
loopVars == <<top, i, out>>

InitParse ==
    /\ bodyText \in ParsePayloads
    /\ encodeBase64 \in {Undefined, Bool(TRUE), Bool(FALSE)}
    /\ opts = NoOpts
    /\ env \in {[worker |-> FALSE, ctorThrows |-> FALSE, postThrows |-> FALSE,
                 textCodec |-> d] : d \in BOOLEAN}
    /\ pc = "idle"
    /\ top = Undefined /\ i = 0 /\ out = <<>>
    /\ result = Pending
    /\ syncResult = NotCalled
    /\ NoSession
    /\ EventIdle
    /\ DecodeIdle
    /\ RouterIdle
    /\ HooksIdle

\* a direct call of parseSync(bodyText, encodeBase64)
CallParseSync ==
    /\ syncResult = NotCalled
    /\ syncResult' = parseSync(bodyText, encodeBase64)
    /\ UNCHANGED <<otherVars, inputVars, pc, loopVars, result, sessionVars>>

\* the quick top-level parse of a string body
transformTop(body) ==
    IF TypeOf(body) = "string"
    THEN NonNullOr(tryParseJsonSafe(body),
                   IF isLikelyBase64(body) THEN NonNullOr(tryDecodeBase64JsonSafe(body), body)
                   ELSE body)
    ELSE body

\* the call from the point where top is known, up to its first await or its return
TransformFrom(tp) ==
    IF IsArray(tp) /\ Len(tp.items) > chunkSize
    THEN /\ top' = tp /\ i' = 0 /\ out' = <<>> /\ pc' = "slice"
         /\ UNCHANGED result
    ELSE /\ result' = parseSync(tp, encodeBase64) /\ pc' = "done"
         /\ UNCHANGED loopVars

\* the call, up to its first await or its return
TransformCall ==
    /\ pc = "idle"
    /\ IF IsNullish(bodyText)
       THEN /\ result' = Arr(<<>>) /\ pc' = "done" /\ UNCHANGED loopVars
       ELSE TransformFrom(transformTop(bodyText))
    /\ UNCHANGED <<otherVars, inputVars, syncResult, sessionVars>>

\* top.slice(i, i + size)
sliceOf(items, from, size) == SubSeq(items, from + 1, Min(from + size, Len(items)))

\* the inner loop: every parsed event that is truthy is pushed to out
PushEvents(evs) ==
    IF \E k \in 1..Len(evs) : evs[k] = Throw
    THEN /\ result' = Throw /\ pc' = "done" /\ UNCHANGED out
    ELSE /\ out' = out \o SelectTruthy(evs) /\ pc' = "yield" /\ UNCHANGED result

sliceEvents(slice, enc) == [k \in 1..Len(slice) |-> parseSnowplowEvent(slice[k], enc)]

\* one pass of the loop body: the slice is parsed, then the loop awaits a 0 ms timer
TransformSlice ==
    /\ pc = "slice"
    /\ PushEvents(sliceEvents(sliceOf(top.items, i, chunkSize), encodeBase64))
    /\ UNCHANGED <<otherVars, inputVars, top, i, syncResult, sessionVars>>

\* the timer fires: the loop steps, and returns out when it is past the end
TransformResume ==
    /\ pc = "yield"
    /\ i' = i + chunkSize
    /\ IF i' < Len(top.items)
       THEN /\ pc' = "slice" /\ UNCHANGED result
       ELSE /\ pc' = "done" /\ result' = Arr(out)
    /\ UNCHANGED <<otherVars, inputVars, top, out, syncResult, sessionVars>>

NextParse == CallParseSync \/ TransformCall \/ TransformSlice \/ TransformResume

SpecParse == InitParse /\ [][NextParse]_vars

(***************************************************************************)
(* src/src/utils/parseWithWebWorker.js: the parser                         *)
(***************************************************************************)
\* the inner try of base64DecodeToString: the percent-decoded text, or on a
\* URIError the plain atob result
W_utf8OrBinary(u, bin) == IF u = Throw THEN bin ELSE u

W_afterAtob(bin) ==
    IF bin = Throw THEN Null ELSE W_utf8OrBinary(decodeURIComponentBytes(bin.s), bin)

W_base64DecodeToString(v) ==
    IF ~Truthy(v) THEN Null
    ELSE IF v.t # "string" THEN Null   \* b64.replace is not a function: caught
    ELSE W_afterAtob(atob(padTo4(replaceAll(replaceAll(v.s, "-", "+"), "_", "/"))))

W_parseDecoded(txt) == IF ~Truthy(txt) THEN Null ELSE CatchNull(JSONparse(txt))

W_tryDecodeBase64Json(v) == W_parseDecoded(W_base64DecodeToString(v))

W_tryParseJSONSafe(v) == CatchNull(JSONparse(v))

W_common(ev) ==
    [eid |-> Or(Get(ev, "eid"), Null),
     ts |-> IF Truthy(Get(ev, "dtm")) THEN ToNumber(Get(ev, "dtm"))
            ELSE IF Truthy(Get(ev, "timestamp")) THEN ToNumber(Get(ev, "timestamp"))
            ELSE DateNow,
     vid |-> Or(Get(ev, "vid"), Null),
     sid |-> Or(Get(ev, "sid"), Null),
     p |-> Or(Get(ev, "p"), Null),
     url |-> Or(Or(Get(ev, "url"), Get(ev, "pageUrl")), Null),
     raw |-> ev]

\* ev.ue_px || ev.unstruct_event || ev.unstruct || null
W_carrier(ev) ==
    Or(Or(Or(Get(ev, "ue_px"), Get(ev, "unstruct_event")), Get(ev, "unstruct")), Null)

W_decoded(ue_px) ==
    IF TypeOf(ue_px) = "string"
    THEN Or(W_tryDecodeBase64Json(ue_px), W_tryParseJSONSafe(ue_px))
    ELSE IF TypeOf(ue_px) = "object" THEN ue_px ELSE Null

W_unstructFrom(ev, decoded) ==
    MkObj(W_common(ev) @@
          [eventType |-> Str("unstruct"),
           schema |-> IF Truthy(decoded)
                      THEN Or(Or(Get(decoded, "schema"),
                                 And(Get(decoded, "self"),
                                     Get(Get(decoded, "self"), "schema"))), Null)
                      ELSE Or(Get(ev, "schema"), Null),
           payload |-> IF Truthy(decoded)
                       THEN Or(Or(Get(decoded, "data"),
                                  And(Get(decoded, "self"),
                                      Get(Get(decoded, "self"), "data"))), decoded)
                       ELSE Or(Or(Get(ev, "data"), Get(ev, "payload")), ev)])

W_unstructEvent(ev) == W_unstructFrom(ev, W_decoded(W_carrier(ev)))

\* try { se_pr = JSON.parse(se_pr) } catch (e) { /* keep string */ }
W_keepOnThrow(r, kept) == IF r = Throw THEN kept ELSE r

W_parsedProperty(se_pr) ==
    IF TypeOf(se_pr) = "string" THEN W_keepOnThrow(JSONparse(se_pr), se_pr) ELSE se_pr

W_parseSnowplowEventBody(ev) ==
    IF Get(ev, "e") = Str("se") \/ Get(ev, "e") = Str("structured_event")
    THEN MkObj(W_common(ev) @@
               [eventType |-> Str("structured_event"),
                category |-> Or(Or(Get(ev, "se_ca"), Get(ev, "category")), Null),
                action |-> Or(Or(Get(ev, "se_ac"), Get(ev, "action")), Null),
                label |-> Or(Get(ev, "se_la"), Null),
                property |-> Or(W_parsedProperty(Get(ev, "se_pr")), Null)])
    ELSE IF Get(ev, "e") = Str("ue") \/ Get(ev, "e") = Str("unstruct")
            \/ Get(ev, "e") = Str("ue_px") \/ Truthy(Get(ev, "unstruct_event"))
    THEN W_unstructEvent(ev)
    ELSE IF Get(ev, "event") = Str("page_view") \/ Get(ev, "e") = Str("pv")
    THEN MkObj(W_common(ev) @@
               [eventType |-> Str("page_view"),
                title |-> Or(Or(Get(ev, "pageTitle"), Get(ev, "dt")), Null),
                url |-> Or(Or(Get(ev, "pageUrl"), Get(ev, "url")), Null),
                referrer |-> Or(Or(Get(ev, "refr"), Get(ev, "referrer")), Null)])
    ELSE MkObj(W_common(ev) @@
               [eventType |-> Or(Or(Get(ev, "e"), Get(ev, "event")), Str("unknown")),
                payload |-> ev])

W_parseSnowplowEvent(ev) ==
    IF ~Truthy(ev) \/ TypeOf(ev) # "object" THEN Null
    ELSE W_parseSnowplowEventBody(ev)

\* items.map(parseSnowplowEvent).filter(Boolean)
W_mapEvents(items) ==
    MkArr(SelectTruthy([k \in 1..Len(items) |-> W_parseSnowplowEvent(items[k])]))

\* the top-level { unstruct_event } wrapper
W_wrapperEvent(parsed, ud, decoded) ==
    MkArr(<<MkObj([eventType |-> Str("unstruct"),
                   schema |-> Or(Get(ud, "schema"), Null),
                   payload |-> Or(Or(decoded, Get(ud, "data")), ud),
                   raw |-> parsed])>>)

\* parseSync from the point where parsed is no longer a string to decode
W_parseParsed(parsed) ==
    IF Truthy(parsed) /\ TypeOf(parsed) = "object"
    THEN IF isEnvelope(parsed) \/ IsArray(parsed)
         THEN W_mapEvents(IF isEnvelope(parsed) THEN Get(parsed, "data").items
                          ELSE parsed.items)
         ELSE IF Truthy(Get(parsed, "unstruct_event"))
         THEN W_wrapperEvent(parsed, Get(parsed, "unstruct_event"),
                  Or(Get(Get(parsed, "unstruct_event"), "data"),
                     W_tryDecodeBase64Json(
                         Or(Get(parsed, "ue_px"),
                            And(Get(Get(parsed, "unstruct_event"), "data"),
                                Get(Get(parsed, "unstruct_event"), "data"))))))
         ELSE MkArr(<<W_parseSnowplowEvent(parsed)>>)
    ELSE MkArr(<<MkObj([eventType |-> Str("unknown"), payload |-> parsed])>>)

\* try { parsed = JSON.parse(t) } catch (e) { ... }
W_onThrow(r, handled) == IF r = Throw THEN handled ELSE r

\* if (decoded) parsed = decoded, else the text is given up as raw text
W_truthyOrRaw(decoded, t) == IF Truthy(decoded) THEN decoded ELSE RawText(t)

\* the string branch of parseSync, for the trimmed text t
W_decodeText(t) ==
    IF jsonShaped(t)
    THEN W_onThrow(JSONparse(Str(t)), W_truthyOrRaw(W_tryDecodeBase64Json(Str(t)), t))
    ELSE W_truthyOrRaw(W_tryDecodeBase64Json(Str(t)), t)

W_afterDecode(d) == IF d.t = "rawtext" THEN rawTextEvents(d.s) ELSE W_parseParsed(d)

W_parseSync(body) ==
    IF ~Truthy(body) THEN Arr(<<>>)
    ELSE W_afterDecode(IF TypeOf(body) = "string" THEN W_decodeText(trim(body.s)) ELSE body)

\* estimateUtf8Bytes(str): the encoded length, or Math.ceil(str.length * 1.5)
estimateUtf8Bytes(s) == IF env.textCodec THEN Utf8Length(s) ELSE (3 * Len(s) + 1) \div 2

\* Math.ceil(n * 1.5)
ceilOneAndHalf(n) == (3 * n + 1) \div 2

\* estimateUtf8Bytes(JSON.stringify(v)), from the length of the JSON text
estimateJsonBytes(v) == IF env.textCodec THEN JsonLen(v) ELSE ceilOneAndHalf(JsonLen(v))

\* commas + 1 for a text that starts with "["
countOfText(t) == IF startsWith(t, "[") THEN countChar(t, ",") + 1 ELSE 0

\* the heuristics of transformSnowplowPayload, for a truthy body
topLevelCount(body) ==
    IF TypeOf(body) = "string" THEN countOfText(trim(body.s))
    ELSE IF IsArray(body) THEN Len(body.items)
    ELSE IF TypeOf(body) = "object"
    THEN IF Truthy(Get(body, "data")) /\ IsArray(Get(body, "data"))
         THEN Len(Get(body, "data").items) ELSE 0
    ELSE 0

estimatedBytes(body) ==
    IF TypeOf(body) = "string" THEN estimateUtf8Bytes(body.s)
    ELSE IF TypeOf(body) = "object" THEN estimateJsonBytes(body)
    ELSE 0

\* reaches with a strict comparison
Mut_reaches(estimate, threshold) == estimate # 0 /\ estimate > threshold

\* (estimate && estimate >= threshold)
reaches(estimate, threshold) == estimate # 0 /\ estimate >= threshold

\* shouldUseWorker without the test of useWorker
Mut_shouldUseWorker(body, o) ==
    \/ reaches(topLevelCount(body), o.workerThresholdEvents)
    \/ reaches(estimatedBytes(body), o.workerThresholdBytes)

shouldUseWorker(body, o) ==
    /\ o.useWorker
    /\ \/ reaches(topLevelCount(body), o.workerThresholdEvents)
       \/ reaches(estimatedBytes(body), o.workerThresholdBytes)

(***************************************************************************)
(* parseWithWebWorker.js: the worker script, the worker session and the    *)
(* exported transformSnowplowPayload                                       *)
(***************************************************************************)
\* buildWorkerScript: the statements of the generated text, in order.  Each
\* `(${f.toString()})();` is the named function expression f, parenthesised and
\* called on the spot with no argument.
WorkerScript ==
    <<[kind |-> "called function expression", name |-> "base64DecodeToString"],
      [kind |-> "called function expression", name |-> "tryDecodeBase64Json"],
      [kind |-> "called function expression", name |-> "tryParseJSONSafe"],
      [kind |-> "called function expression", name |-> "parseSnowplowEvent"],
      [kind |-> "called function expression", name |-> "parseSync"],
      [kind |-> "assignment", name |-> "self.onmessage"]>>

\* The names a script binds in the scope its handlers see: a function declaration
\* binds its name there, the name of a function expression is bound inside that
\* function only.
BoundNames(script) ==
    {script[k].name : k \in {j \in 1..Len(script) : script[j].kind = "function declaration"}}

\* the handler's try and catch around the value parseSync returns
ReplyOf(r) ==
    IF r = Throw THEN [ok |-> FALSE, result |-> Undefined] ELSE [ok |-> TRUE, result |-> r]

\* what the script's onmessage posts back for { bodyText }: calling a name that is
\* not bound is a ReferenceError, which the handler catches and reports
WorkerReply(body) ==
    IF "parseSync" \in BoundNames(WorkerScript)
    THEN ReplyOf(W_parseSync(body))
    ELSE [ok |-> FALSE, result |-> Undefined]

\* DEFAULTS
DefaultThresholdEvents == 100
DefaultThresholdBytes == 50 * 1024
DefaultChunkSize == 50

MaxDispatchLen == 2
\* the calls made run the chunk loop at most this many times
MaxSlices == 4
DispatchElems == {EvPv, ElUe, Null}
CountThresholds == {0, MaxDispatchLen, DefaultThresholdEvents}
ByteThresholds == {0, JsonLen(EvPv), DefaultThresholdBytes}
\* chunkSize is taken from the options as it is given: 0 is one of its values
ChunkSizes == {0, 1, MaxDispatchLen, DefaultChunkSize}

DispatchPayloads ==
    Scalars \cup {Str(s) : s \in Texts}
        \cup {Arr(xs) : xs \in SeqsUpTo(DispatchElems, MaxDispatchLen)}
        \cup {Arr(LongArray(n)) : n \in {DefaultThresholdEvents - 1, DefaultThresholdEvents,
                                        DefaultThresholdEvents + 1}}
        \cup {EvPv, ElSe, ElUePx, Wrapper,
              Obj([schema |-> Str("s"), data |-> Arr(<<EvPv, Null, ElSe>>)])}

\* the hosts: Worker undefined; Worker defined and working, with and without
\* TextEncoder; new Worker(...) throws; postMessage throws (a payload that
\* cannot be cloned)
Hosts ==
    {[worker |-> FALSE, ctorThrows |-> FALSE, postThrows |-> FALSE, textCodec |-> TRUE],
     [worker |-> TRUE, ctorThrows |-> FALSE, postThrows |-> FALSE, textCodec |-> TRUE],
     [worker |-> TRUE, ctorThrows |-> FALSE, postThrows |-> FALSE, textCodec |-> FALSE],
     [worker |-> TRUE, ctorThrows |-> TRUE, postThrows |-> FALSE, textCodec |-> TRUE],
     [worker |-> TRUE, ctorThrows |-> FALSE, postThrows |-> TRUE, textCodec |-> TRUE]}

\* the options the calls are made with, merged over DEFAULTS
DispatchOptions ==
    [useWorker : BOOLEAN, workerThresholdEvents : CountThresholds,
     workerThresholdBytes : ByteThresholds, chunkSize : ChunkSizes]

\* a call about to be made with one of the payloads and one of the options
InitWith(payloads, options) ==
    /\ bodyText \in payloads
    /\ encodeBase64 = Undefined
    /\ opts \in options
    /\ env \in Hosts
    /\ (IsArray(bodyText) /\ opts.chunkSize > 0) =>
            Len(bodyText.items) <= MaxSlices * opts.chunkSize
    /\ pc = "idle"
    /\ top = Undefined /\ i = 0 /\ out = <<>>
    /\ result = Pending
    /\ syncResult = NotCalled
    /\ NoSession
    /\ EventIdle
    /\ DecodeIdle
    /\ RouterIdle
    /\ HooksIdle

Init == InitWith(DispatchPayloads, DispatchOptions)

\* resolve(v) on the promise of parseWithWorker: only the first call settles it
Resolved(v) == IF result = Pending THEN v ELSE result

\* a direct call of parseSync(bodyText), for comparison
W_CallParseSync ==
    /\ syncResult = NotCalled
    /\ syncResult' = W_parseSync(bodyText)
    /\ UNCHANGED <<otherVars, inputVars, pc, loopVars, result, sessionVars>>

\* parseWithWorker: the promise executor, which runs to its end within the call
StartWorker ==
    /\ path' = "worker"
    /\ UNCHANGED <<loopVars, terminated, urlRevoked, ignored>>
    /\ IF env.ctorThrows
       THEN \* new Worker(url) throws: the catch block
            /\ result' = Resolved(W_parseSync(bodyText))
            /\ nFallback' = nFallback + 1 /\ nResolve' = nResolve + 1
            /\ lastSource' = "createFailed" /\ pc' = "done"
            /\ UNCHANGED <<worker, timer, posted>>
       ELSE IF env.postThrows
       THEN \* handlers set, timer armed, then worker.postMessage throws: the catch block
            /\ worker' = "running" /\ timer' = "armed"
            /\ result' = Resolved(W_parseSync(bodyText))
            /\ nFallback' = nFallback + 1 /\ nResolve' = nResolve + 1
            /\ lastSource' = "postFailed" /\ pc' = "done"
            /\ UNCHANGED posted
       ELSE /\ worker' = "running" /\ timer' = "armed" /\ posted' = TRUE
            /\ pc' = "awaiting"
            /\ UNCHANGED <<result, nFallback, nResolve, lastSource>>

\* the top-level value parseInChunks works on; a text it cannot decode is left
\* to parseSync
chunkTop(body) ==
    IF TypeOf(body) = "string"
    THEN W_onThrow(JSONparse(body), W_truthyOrRaw(W_tryDecodeBase64Json(body), body.s))
    ELSE body

\* parseInChunks from the point where parsed is known, up to its first await or
\* its return
ChunksFrom(parsed) ==
    IF IsArray(parsed) /\ Len(parsed.items) > opts.chunkSize
    THEN /\ top' = parsed /\ i' = 0 /\ out' = <<>> /\ pc' = "slice"
         /\ UNCHANGED result
    ELSE /\ result' = W_parseSync(IF parsed.t = "rawtext" THEN bodyText ELSE parsed)
         /\ pc' = "done" /\ UNCHANGED loopVars

\* parseInChunks up to its first await or its return
StartChunks ==
    /\ path' = "main"
    /\ UNCHANGED <<terminated, timer, worker, posted, urlRevoked, nFallback, nResolve,
                   lastSource, ignored>>
    /\ ChunksFrom(chunkTop(bodyText))

\* transformSnowplowPayload(bodyText, options), up to its first await or its return
W_TransformCall ==
    /\ pc = "idle"
    /\ IF ~Truthy(bodyText)
       THEN /\ path' = "empty" /\ result' = Arr(<<>>) /\ pc' = "done"
            /\ UNCHANGED <<loopVars, terminated, timer, worker, posted, urlRevoked,
                           nFallback, nResolve, lastSource, ignored>>
       ELSE IF shouldUseWorker(bodyText, opts) /\ env.worker
       THEN StartWorker
       ELSE StartChunks
    /\ UNCHANGED <<otherVars, inputVars, syncResult>>

W_sliceEvents(slice) == [k \in 1..Len(slice) |-> W_parseSnowplowEvent(slice[k])]

\* one pass of the body of parseInChunks' loop, up to its await
W_Slice ==
    /\ pc = "slice" /\ path = "main"
    /\ PushEvents(W_sliceEvents(sliceOf(top.items, i, opts.chunkSize)))
    /\ UNCHANGED <<otherVars, inputVars, top, i, syncResult, sessionVars>>

\* the 0 ms timer fires: the loop steps, and returns out when it is past the end
W_Resume ==
    /\ pc = "yield" /\ path = "main"
    /\ i' = i + opts.chunkSize
    /\ IF i' < Len(top.items)
       THEN /\ pc' = "slice" /\ UNCHANGED result
       ELSE /\ pc' = "done" /\ result' = Arr(out)
    /\ UNCHANGED <<otherVars, inputVars, top, out, syncResult, sessionVars>>

\* what every variable but ignored keeps when a callback returns at once
allButIgnored == <<otherVars, inputVars, pc, loopVars, result, syncResult, terminated, timer, worker,
                   posted, urlRevoked, nFallback, nResolve, lastSource, path>>

\* cleanup(): the timer is cleared, the worker terminated, the blob URL revoked
Cleanup ==
    /\ timer' = IF timer = "armed" THEN "cleared" ELSE timer
    /\ worker' = "terminated"
    /\ urlRevoked' = TRUE

\* OnMessage without the test of the token
Mut_OnMessage ==
    /\ worker # "none" /\ posted
    /\ terminated' = TRUE
    /\ Cleanup
    /\ IF WorkerReply(bodyText).ok
       THEN /\ result' = Resolved(WorkerReply(bodyText).result)
            /\ lastSource' = "messageOk"
            /\ UNCHANGED nFallback
       ELSE /\ result' = Resolved(W_parseSync(bodyText))
            /\ lastSource' = "messageFail" /\ nFallback' = nFallback + 1
    /\ nResolve' = nResolve + 1 /\ pc' = "done"
    /\ UNCHANGED <<otherVars, inputVars, loopVars, syncResult, posted, ignored, path>>

\* worker.onmessage, run for the reply the worker posts
OnMessage ==
    /\ worker # "none" /\ posted
    /\ IF terminated
       THEN ignored' = "message" /\ UNCHANGED allButIgnored
       ELSE /\ terminated' = TRUE
            /\ Cleanup
            /\ IF WorkerReply(bodyText).ok
               THEN /\ result' = Resolved(WorkerReply(bodyText).result)
                    /\ lastSource' = "messageOk"
                    /\ UNCHANGED nFallback
               ELSE /\ result' = Resolved(W_parseSync(bodyText))
                    /\ lastSource' = "messageFail" /\ nFallback' = nFallback + 1
            /\ nResolve' = nResolve + 1 /\ pc' = "done"
            /\ UNCHANGED <<otherVars, inputVars, loopVars, syncResult, posted, ignored, path>>

\* OnError with the fallback parse left out: the call resolves with an empty batch
Mut_OnError ==
    /\ worker # "none"
    /\ IF terminated
       THEN ignored' = "error" /\ UNCHANGED allButIgnored
       ELSE /\ terminated' = TRUE
            /\ Cleanup
            /\ result' = Resolved(Arr(<<>>))
            /\ lastSource' = "error" /\ UNCHANGED nFallback
            /\ nResolve' = nResolve + 1 /\ pc' = "done"
            /\ UNCHANGED <<otherVars, inputVars, loopVars, syncResult, posted, ignored, path>>

\* worker.onerror, run for an error event of the worker
OnError ==
    /\ worker # "none"
    /\ IF terminated
       THEN ignored' = "error" /\ UNCHANGED allButIgnored
       ELSE /\ terminated' = TRUE
            /\ Cleanup
            /\ result' = Resolved(W_parseSync(bodyText))
            /\ lastSource' = "error" /\ nFallback' = nFallback + 1
            /\ nResolve' = nResolve + 1 /\ pc' = "done"
            /\ UNCHANGED <<otherVars, inputVars, loopVars, syncResult, posted, ignored, path>>

\* OnTimeout that terminates the worker and never resolves
Mut_OnTimeout ==
    /\ timer = "armed"
    /\ timer' = "fired"
    /\ terminated' = TRUE
    /\ worker' = "terminated"
    /\ UNCHANGED <<otherVars, inputVars, pc, loopVars, result, syncResult, posted, urlRevoked,
                   nFallback, nResolve, lastSource, ignored, path>>

\* the callback of setTimeout(..., workerTimeoutMs)
OnTimeout ==
    /\ timer = "armed"
    /\ timer' = "fired"
    /\ IF terminated
       THEN /\ ignored' = "timeout"
            /\ UNCHANGED <<otherVars, inputVars, pc, loopVars, result, syncResult, terminated, worker,
                           posted, urlRevoked, nFallback, nResolve, lastSource, path>>
       ELSE /\ terminated' = TRUE
            /\ worker' = "terminated"
            /\ result' = Resolved(W_parseSync(bodyText))
            /\ lastSource' = "timeout" /\ nFallback' = nFallback + 1
            /\ nResolve' = nResolve + 1 /\ pc' = "done"
            /\ UNCHANGED <<otherVars, inputVars, loopVars, syncResult, posted, urlRevoked, ignored,
                           path>>

Next ==
    \/ W_CallParseSync
    \/ W_TransformCall
    \/ W_Slice
    \/ W_Resume
    \/ OnMessage
    \/ OnError
    \/ OnTimeout

Spec == Init /\ [][Next]_vars

\* the calls whose runs are followed to their end: the short payloads, with
\* thresholds that send the arrays of MaxDispatchLen elements to the worker and
\* a chunk size that splits them on the main thread
ShortPayloads == {b \in DispatchPayloads : IsArray(b) => Len(b.items) <= MaxDispatchLen}
ShortOptions ==
    {o \in DispatchOptions : /\ o.workerThresholdEvents = MaxDispatchLen
                             /\ o.workerThresholdBytes = DefaultThresholdBytes
                             /\ o.chunkSize = 1}

InitLive == InitWith(ShortPayloads, ShortOptions)

\* the step OnTimeout takes, as the timer shows it: the armed timer fires.  It is
\* enabled exactly when OnTimeout is, and within Next only OnTimeout takes it.
TimerFires == timer = "armed" /\ timer' = "fired"

\* the event loop runs a timer callback that is due
SpecLive == InitLive /\ [][Next]_vars /\ WF_timer(TimerFires)

(***************************************************************************)
(* The properties.                                                         *)
(***************************************************************************)
\* an event of a batch: an object that says what kind of event it is
IsEvent(v) == v.t = "object" /\ v.f # <<>> /\ "eventType" \in DOMAIN v.f

\* a ParsedBatch: an array of events
IsBatch(v) == v.t = "array" /\ \A k \in 1..Len(v.items) : IsEvent(v.items[k])

\* the completion paths of a worker session other than the clean ok:true reply
FallbackSources == {"createFailed", "postFailed", "messageFail", "error", "timeout"}

\* C1: once the background path is chosen and the session has completed on any
\* of its paths, the call is resolved with a batch, never rejected and never
\* pending; on every path but the clean ok:true reply the value is parseSync of
\* the original payload.
C1_AlwaysResolvesWithFallback ==
    (path = "worker" /\ lastSource # "none") =>
        /\ result # Pending /\ result # Throw
        /\ IsBatch(result)
        /\ lastSource \in FallbackSources => result = W_parseSync(bodyText)

\* C1 witness: a session ended by the worker's error event, resolved with the
\* non-empty synchronous parse of the payload
C1_Witness ==
    /\ path = "worker" /\ lastSource = "error"
    /\ result = W_parseSync(bodyText) /\ IsBatch(result) /\ Len(result.items) > 0

\* C2: once the token is set by one of the three completion sources, no later
\* message, error event or timer callback changes the resolved value or does any
\* completion work (no fallback parse, no resolve, no cleanup).
C2_LaterSourcesHaveNoEffect ==
    [][terminated =>
         UNCHANGED <<result, terminated, worker, urlRevoked, nFallback, nResolve,
                     lastSource, pc>>]_vars

\* C2 witness: the timeout completed the session and a worker message that came
\* after it was discarded
C2_Witness ==
    /\ lastSource = "timeout" /\ ignored = "message"
    /\ result = W_parseSync(bodyText) /\ nResolve = 1 /\ nFallback = 1

\* C3 as stated: the fallback parse runs at most once per call and exactly one
\* path settles the call.
C3_FallbackAtMostOnce == nFallback <= 1 /\ nResolve <= 1

\* C4 as stated: whenever a worker was created and the call's promise is
\* resolved, the worker has been terminated.
C4_WorkerTerminatedWhenResolved ==
    (worker # "none" /\ result # Pending) => worker = "terminated"

\* C5: the timeout path resolves the call with the direct synchronous parse of
\* the payload, and a call waiting for its worker is never left pending: with the
\* worker silent the armed timer fires and the call resolves.
C5_TimeoutResolves ==
    /\ [](lastSource = "timeout" => result = W_parseSync(bodyText))
    /\ (pc = "awaiting") ~> (result # Pending)

\* C5 witness: the worker said nothing, the timer fired and the call resolved
\* with the synchronous parse
C5_Witness ==
    /\ lastSource = "timeout" /\ timer = "fired" /\ ignored = "none"
    /\ result = W_parseSync(bodyText) /\ Len(result.items) > 0

\* C6 as stated: when the worker answers for a payload that parseSync parses, the
\* answer is {ok: true, result} with result the parseSync output.
C6_WorkerAnswersCleanly ==
    (lastSource \in {"messageOk", "messageFail"} /\ W_parseSync(bodyText) # Throw) =>
        /\ WorkerReply(bodyText) = [ok |-> TRUE, result |-> W_parseSync(bodyText)]
        /\ lastSource = "messageOk"

\* the decision read from the branch the call took
BackgroundChosen == path = "worker"

C8_AsyncEqualsSync ==
    (pc = "done" /\ syncResult # NotCalled) => result = syncResult

\* the elements of an envelope's data, or of a bare array
ElementsOf(body) == IF IsArray(body) THEN body.items ELSE body.f.data.items
IsEnvelopeInput(body) ==
    /\ body.t = "object" /\ body.f # <<>> /\ {"schema", "data"} \subseteq DOMAIN body.f
    /\ Truthy(body.f.schema) /\ IsArray(body.f.data)
IsObjectElement(x) == x.t \in {"object", "array"}
\* the batch has one event per element of elems, in order, each with that raw
OneEventEach(batch, elems) ==
    /\ batch.t = "array" /\ Len(batch.items) = Len(elems)
    /\ \A k \in 1..Len(elems) : IsEvent(batch.items[k]) /\ batch.items[k].f.raw = elems[k]

\* C9: for an envelope or a bare array the output (of parseSync, and of the
\* asynchronous entry) has exactly one event per element that is a non-null
\* object, in input order, the i-th event's raw being that element; every other
\* element is dropped.
C9_OneEventPerObjectElement ==
    (IsArray(bodyText) \/ IsEnvelopeInput(bodyText)) =>
        /\ syncResult # NotCalled =>
               OneEventEach(syncResult, SelectSeq(ElementsOf(bodyText), IsObjectElement))
        /\ (pc = "done" /\ path = "none") =>
               OneEventEach(result, SelectSeq(ElementsOf(bodyText), IsObjectElement))

\* C9 witness: an envelope whose data mixes objects with other values, parsed to
\* fewer events than it has elements
C9_Witness ==
    /\ IsEnvelopeInput(bodyText) /\ syncResult # NotCalled
    /\ Len(syncResult.items) > 0
    /\ Len(syncResult.items) < Len(ElementsOf(bodyText))

\* C10: for every input parseSync returns a batch and the asynchronous entry
\* resolves with a batch; neither throws.
C10_Total ==
    /\ syncResult # NotCalled => (syncResult # Throw /\ IsBatch(syncResult))
    /\ pc = "done" => (result # Throw /\ IsBatch(result))

\* C10 witness: an array holding values that are not objects, parsed by both
\* entries to a batch
C10_Witness ==
    /\ IsArray(bodyText) /\ \E k \in 1..Len(bodyText.items) : bodyText.items[k] = Null
    /\ \E k \in 1..Len(bodyText.items) : bodyText.items[k] = Num(5)
    /\ syncResult # NotCalled /\ IsBatch(syncResult)
    /\ pc = "done" /\ IsBatch(result)

\* the events of a batch all carry ts, and it is a number
AllHaveTs(batch) ==
    batch.t = "array" =>
        \A k \in 1..Len(batch.items) :
            /\ IsEvent(batch.items[k])
            /\ "ts" \in DOMAIN batch.items[k].f
            /\ batch.items[k].f.ts.t = "number"

\* C11 as stated: every event of every batch parseSync returns or the
\* asynchronous entry resolves with, the raw_text, wrapper and unknown
\* placeholders included, has ts populated with a number.
C11_TsAlwaysPopulated ==
    /\ syncResult # NotCalled => AllHaveTs(syncResult)
    /\ pc = "done" => AllHaveTs(result)

\* the events of a batch all carry a payload that is neither undefined nor null
AllHavePayload(batch) ==
    batch.t = "array" =>
        \A k \in 1..Len(batch.items) :
            /\ IsEvent(batch.items[k])
            /\ "payload" \in DOMAIN batch.items[k].f
            /\ ~IsNullish(batch.items[k].f.payload)

\* C12 as stated: every event of every returned batch has a payload that is
\* present and not null, whatever the kind of the event and the shape of its
\* decoded carrier.
C12_PayloadNeverAbsent ==
    /\ syncResult # NotCalled => AllHavePayload(syncResult)
    /\ pc = "done" => AllHavePayload(result)

(***************************************************************************)
(* const.js: parseSnowplowEvent called on one raw event, and called again  *)
(* on the event it returned.                                               *)
(***************************************************************************)
\* a self-describing event whose carrier is the object { schema, data }
ElUeWrapped(data) ==
    Obj([e |-> Str("ue"), unstruct |-> Obj([schema |-> Str("s"), data |-> data])])
\* a self-describing event whose carrier is the object { self: { schema, data } }
ElUeSelf(data) ==
    Obj([e |-> Str("ue"),
         unstruct |-> Obj([self |-> Obj([schema |-> Str("s"), data |-> data])])])

\* the data of a carrier: flat, nested once, nested twice, with a nested data
\* that is not an object, with a nested data of null
Flat == Obj([k |-> Num(1)])
NestedOnce == Obj([data |-> Obj([foo |-> Num(1)])])
NestedTwice == Obj([data |-> Obj([data |-> Obj([x |-> Num(1)])])])
CarrierData == {Flat, NestedOnce, NestedTwice, Obj([data |-> Num(7)]), Obj([data |-> Null])}

\* a self-describing event with both a plain and a base64 carrier
ElBoth(pr, px) == Obj([e |-> Str("ue"), ue_pr |-> Str(pr), ue_px |-> Str(px)])
\* plain carriers: JSON-like, and parseable without being JSON-like
PlainCarriers == {"{\"schema\":\"s\",\"data\":{\"k\":1}}", "5"}
\* base64 carriers: base64-like, and too short to be base64-like
Base64Carriers == {"eyJlIjoicHYifQ", "NQ"}

\* the carrier object { schema, data }
CarrierObject == Obj([schema |-> Str("s"), data |-> Flat])
\* events that carry unstruct_event: with no e (Wrapper), and with the e of a
\* page view, of a structured event, of a self-describing event
ElPvCarrier == Obj([e |-> Str("pv"), unstruct_event |-> CarrierObject])
ElSeCarrier == Obj([e |-> Str("se"), unstruct_event |-> CarrierObject])
ElUnstruct == Obj([e |-> Str("unstruct"), unstruct_event |-> CarrierObject])
\* self-describing events none of whose carriers decodes
ElUeBad == Obj([e |-> Str("ue"), ue_pr |-> Str("{bad}")])
ElUeBadBoth == Obj([e |-> Str("ue"), ue_pr |-> Str("{bad}"), ue_px |-> Str("[bad]")])
\* events of no known kind: named by event, by an e that is the empty string
ElEvent == Obj([event |-> Str("click")])
ElEmptyE == Obj([e |-> Str(""), event |-> Str("click")])
ElOther == Obj([e |-> Str("pp"), event |-> Str("click")])
\* structured events with a property: JSON of an object, of a number, of null,
\* a text that is not JSON, the empty text
ElSePr(text) == Obj([e |-> Str("se"), se_ca |-> Str("button"), se_pr |-> Str(text)])
PropertyTexts == {"{\"e\":\"pv\"}", "5", "null", "{bad}", ""}
ElStructured == Obj([e |-> Str("structured_event"), se_ac |-> Str("click")])

RawEvents ==
    {EvPv, ElSe, ElUe, ElUePx, ElDtm, ElUnknown, Null, Num(5), Str("x")}
        \cup {Wrapper, ElPvCarrier, ElSeCarrier, ElUnstruct, ElUeBad, ElUeBadBoth}
        \cup {ElEvent, ElEmptyE, ElOther, ElStructured}
        \cup {ElSePr(t) : t \in PropertyTexts}
        \cup {ElUeWrapped(d) : d \in CarrierData}
        \cup {ElUeSelf(d) : d \in CarrierData}
        \cup {ElBoth(pr, px) : pr \in PlainCarriers, px \in Base64Carriers}

InitEvent ==
    /\ bodyText \in RawEvents
    /\ encodeBase64 \in {Undefined, Bool(TRUE), Bool(FALSE)}
    /\ opts = NoOpts
    /\ env \in {[worker |-> FALSE, ctorThrows |-> FALSE, postThrows |-> FALSE,
                 textCodec |-> d] : d \in BOOLEAN}
    /\ pc = "idle"
    /\ top = Undefined /\ i = 0 /\ out = <<>>
    /\ result = Pending
    /\ syncResult = NotCalled
    /\ NoSession
    /\ EventIdle
    /\ DecodeIdle
    /\ RouterIdle
    /\ HooksIdle

\* parseSnowplowEvent(bodyText, encodeBase64)
Normalize ==
    /\ normalizedOnce = NotCalled
    /\ normalizedOnce' = parseSnowplowEvent(bodyText, encodeBase64)
    /\ UNCHANGED <<inputVars, pc, loopVars, result, syncResult, sessionVars,
                   normalizedTwice, decodeVars, routerVars, hookVars>>

\* parseSnowplowEvent called on the event it returned
Renormalize ==
    /\ normalizedOnce # NotCalled /\ normalizedTwice = NotCalled
    /\ normalizedTwice' = parseSnowplowEvent(normalizedOnce, encodeBase64)
    /\ UNCHANGED <<inputVars, pc, loopVars, result, syncResult, sessionVars,
                   normalizedOnce, decodeVars, routerVars, hookVars>>

NextEvent == Normalize \/ Renormalize

SpecEvent == InitEvent /\ [][NextEvent]_vars

\* C13 as stated: normalizing the event that normalization returned gives an
\* event with the same eventType and the same payload.
C13_Idempotent ==
    (IsEvent(normalizedOnce) /\ normalizedTwice # NotCalled) =>
        /\ IsEvent(normalizedTwice)
        /\ Get(normalizedTwice, "eventType") = Get(normalizedOnce, "eventType")
        /\ Get(normalizedTwice, "payload") = Get(normalizedOnce, "payload")

\* a nested data object: an object or an array, not null
IsDataObject(x) == x.t \in {"object", "array"}

\* the payload C14 states for carrier data P: P.data when P holds a nested data
\* object, else P
StatedPayload(P) ==
    IF P.t = "object" /\ P.f # <<>> /\ "data" \in DOMAIN P.f /\ IsDataObject(P.f.data)
    THEN P.f.data ELSE P

\* C14 as stated: for a self-describing event whose carrier is {schema, data: P}
\* or {self: {schema, data: P}}, the payload is P.data when P is an object with
\* a nested data object and P otherwise, one level and no more.
C14_UnwrapsOneLevel ==
    \A P \in CarrierData :
        (bodyText \in {ElUeWrapped(P), ElUeSelf(P)} /\ normalizedOnce # NotCalled) =>
            /\ IsEvent(normalizedOnce)
            /\ Get(normalizedOnce, "payload") = StatedPayload(P)

\* a text that is neither JSON nor base64-encoded JSON
Undecodable(v) ==
    /\ v.t = "string"
    /\ JSONparse(v) = Throw
    /\ tryDecodeBase64JsonSafe(v) = Null

\* the single raw_text event that keeps the text s
RawTextBatch(s) == Arr(<<Obj([eventType |-> Str("raw_text"), payload |-> s])>>)

\* C15 as stated: a string that decodes neither as JSON nor as base64 JSON
\* gives exactly one raw_text event whose payload is the input string, character
\* for character, leading and trailing white space included.
C15_RawTextVerbatim ==
    Undecodable(bodyText) =>
        /\ syncResult # NotCalled => syncResult = RawTextBatch(bodyText)
        /\ pc = "done" => result = RawTextBatch(bodyText)

\* the order C16 states: the caller's preference when it is true or false, the
\* heuristic order otherwise
StatedOrder(ev, enc) ==
    IF enc = Bool(TRUE)
    THEN <<Get(ev, "ue_px"), Get(ev, "ue_pr"), unstructCarrier(ev)>>
    ELSE IF enc = Bool(FALSE)
    THEN <<Get(ev, "ue_pr"), Get(ev, "ue_px"), unstructCarrier(ev)>>
    ELSE IF isLikelyJsonString(Get(ev, "ue_pr"))
    THEN <<Get(ev, "ue_pr"), Get(ev, "ue_px"), unstructCarrier(ev)>>
    ELSE IF isLikelyBase64(Get(ev, "ue_px"))
    THEN <<Get(ev, "ue_px"), Get(ev, "ue_pr"), unstructCarrier(ev)>>
    ELSE <<Get(ev, "ue_pr"), Get(ev, "ue_px"), unstructCarrier(ev)>>

\* the self-describing event that trying the carriers in the given order gives
EventInOrder(ev, ordered) ==
    unstructFrom(ev, lastResort(firstNormalized(ordered, Null), unstructCarrier(ev)))

\* C16 as stated: a self-describing event is normalized from its carriers tried
\* in the stated order: [ue_px, ue_pr, unstruct_event] for encodeBase64 === true,
\* [ue_pr, ue_px, unstruct_event] for encodeBase64 === false, the heuristic order
\* when no preference is given.
C16_CarrierOrder ==
    (normalizedOnce # NotCalled /\ Get(bodyText, "e") = Str("ue")) =>
        normalizedOnce = EventInOrder(bodyText, StatedOrder(bodyText, encodeBase64))

(***************************************************************************)
(* The base64 JSON decoders on their own: const.js tryDecodeBase64JsonSafe *)
(* and parseWithWebWorker.js tryDecodeBase64Json, each called once on      *)
(* bodyText.                                                               *)
(***************************************************************************)
\* JSON.stringify on the values that are encoded
JSONstringify(v) ==
    CASE v = EvPv -> "{\"e\":\"pv\"}"
      [] v = Str("abc") -> "\"abc\""
      [] v = Num(5) -> "5"
      [] v = Null -> "null"
      [] v = Arr(<<Num(1)>>) -> "[1]"
      [] v = Str("þ") -> "\"þ\""
      [] v = Str("ÿ") -> "\"ÿ\""
      [] OTHER -> "{\"schema\":\"s\",\"data\":{\"k\":1}}"

RECURSIVE Utf8Encode(_)
\* the bytes of a text: one per ASCII character, two for U+00C0..U+00FF
Utf8Encode(s) ==
    IF Len(s) = 0 THEN ""
    ELSE IF CharAt(s, 1) = "þ" THEN LeadByte \o "¾" \o Utf8Encode(SubSeq(s, 2, Len(s)))
    ELSE IF CharAt(s, 1) = "ÿ" THEN LeadByte \o "¿" \o Utf8Encode(SubSeq(s, 2, Len(s)))
    ELSE CharAt(s, 1) \o Utf8Encode(SubSeq(s, 2, Len(s)))

\* btoa on the bytes that are encoded
btoa(bin) ==
    CASE bin = "{\"e\":\"pv\"}" -> "eyJlIjoicHYifQ=="
      [] bin = "\"abc\"" -> "ImFiYyI="
      [] bin = "5" -> "NQ=="
      [] bin = "null" -> "bnVsbA=="
      [] bin = "[1]" -> "WzFd"
      [] bin = "\"Ã¾\"" -> "IsO+Ig=="
      [] bin = "\"Ã¿\"" -> "IsO/Ig=="
      [] OTHER -> "eyJzY2hlbWEiOiJzIiwiZGF0YSI6eyJrIjoxfX0="

\* standard base64 to the URL-safe alphabet, with or without the padding
toUrlSafe(b, padded) ==
    IF padded THEN replaceAll(replaceAll(b, "+", "-"), "/", "_")
    ELSE stripEquals(replaceAll(replaceAll(b, "+", "-"), "/", "_"))

encodeValue(v, padded) == Str(toUrlSafe(btoa(Utf8Encode(JSONstringify(v))), padded))

EncodedValues ==
    {EvPv, Str("abc"), Num(5), Null, Arr(<<Num(1)>>), Str("þ"), Str("ÿ"),
     Obj([schema |-> Str("s"), data |-> Obj([k |-> Num(1)])])}

\* inputs that are no encoding of a JSON text: not a string, empty, not base64,
\* bytes that are not UTF-8 (bare, and inside the quotes of a JSON string), and
\* UTF-8 text that is not JSON
OtherInputs ==
    {Undefined, Null, Num(5), Bool(TRUE), EvPv, Arr(<<Num(1)>>), Arr(<<Str("NQ==")>>),
     Str(""),
     Str("%%%%"), Str("abcde"), Str("e30=="), Str("AAAA"), Str("Iv8i"), Str("YWJj")}

InitDecoder ==
    /\ \/ /\ bodyText \in OtherInputs
          /\ original = NotCalled
       \/ \E v \in EncodedValues, padded \in BOOLEAN :
             /\ bodyText = encodeValue(v, padded)
             /\ original = v
    /\ encodeBase64 = Undefined
    /\ opts = NoOpts
    /\ env \in {[worker |-> FALSE, ctorThrows |-> FALSE, postThrows |-> FALSE,
                 textCodec |-> d] : d \in BOOLEAN}
    /\ pc = "idle"
    /\ top = Undefined /\ i = 0 /\ out = <<>>
    /\ result = Pending
    /\ syncResult = NotCalled
    /\ NoSession
    /\ EventIdle
    /\ safeDecoded = NotCalled /\ wDecoded = NotCalled
    /\ RouterIdle
    /\ HooksIdle

\* const.js: tryDecodeBase64JsonSafe(bodyText)
DecodeSafe ==
    /\ safeDecoded = NotCalled
    /\ safeDecoded' = tryDecodeBase64JsonSafe(bodyText)
    /\ UNCHANGED <<inputVars, pc, loopVars, result, syncResult, sessionVars,
                   eventVars, original, wDecoded, routerVars, hookVars>>

\* parseWithWebWorker.js: tryDecodeBase64Json(bodyText)
W_Decode ==
    /\ wDecoded = NotCalled
    /\ wDecoded' = W_tryDecodeBase64Json(bodyText)
    /\ UNCHANGED <<inputVars, pc, loopVars, result, syncResult, sessionVars,
                   eventVars, original, safeDecoded, routerVars, hookVars>>

NextDecoder == DecodeSafe \/ W_Decode

SpecDecoder == InitDecoder /\ [][NextDecoder]_vars

\* the binary string of a text input after the URL-safe translation and padding
BytesOf(v) == atob(padTo4(replaceAll(replaceAll(v.s, "-", "+"), "_", "/")))

\* one of the steps C17 names fails on v
StepFails(v) ==
    \/ v.t # "string"
    \/ Len(v.s) = 0
    \/ BytesOf(v) = Throw
    \/ BytesOf(v).s = Mojibake
    \/ ~validUtf8(BytesOf(v).s)
    \/ JSONparseText(Utf8Decode(BytesOf(v).s)) = Throw

\* C17 as stated: neither decoder throws, and each returns null when the input
\* is not a non-empty string, is not valid base64 after the URL-safe translation
\* and padding, decodes to bytes that are not valid UTF-8, or decodes to text
\* that is not valid JSON.
C17_NullOnAnyFailure ==
    /\ safeDecoded # Throw /\ wDecoded # Throw
    /\ (safeDecoded # NotCalled /\ StepFails(bodyText)) => safeDecoded = Null
    /\ (wDecoded # NotCalled /\ StepFails(bodyText)) => wDecoded = Null


RECURSIVE beforeQuery(_)
\* s.split('?')[0]
beforeQuery(s) ==
    IF Len(s) = 0 THEN ""
    ELSE IF CharAt(s, 1) = "?" THEN ""
    ELSE CharAt(s, 1) \o beforeQuery(SubSeq(s, 2, Len(s)))

\* normalizePath(location.href): new URL(...) has split the URL into pathname and
\* hash, neither with the query of the URL
normalizePath(u) ==
    IF Len(u.hash) > 0 /\ startsWith(u.hash, "#/")
    THEN beforeQuery(SubSeq(u.hash, 2, Len(u.hash)))
    ELSE u.pathname

Hrefs == {[pathname |-> p, hash |-> g] : p \in {"/a", "/b"}, g \in {"", "#/c?x=1", "#top"}}

Active == {k \in Listeners : listenerState[k] = "active"}

\* if (newUrl === oldUrl) return, taken as never returning
Mut_routeChanged(newUrl, oldUrl) == TRUE
\* notify goes on past if (newUrl === oldUrl) return
routeChanged(newUrl, oldUrl) == newUrl # oldUrl

\* what lastUrl is while onRouteChange runs: lastUrl = newUrl comes before the call
lastUrlInCallback(newUrl, oldUrl) == newUrl

\* onRouteChange(oldUrl) in notify
NotifyCall(k, newUrl, oldUrl) ==
    [listener |-> k, via |-> "notify", args |-> <<oldUrl>>,
     newUrl |-> newUrl, oldUrl |-> oldUrl,
     lastUrlSeen |-> lastUrlInCallback(newUrl, oldUrl),
     cancelled |-> listenerState[k] = "cancelled"]

\* onRouteChange(normalizePath(location.href), lastUrl) in the two page-hide handlers
HideCall(k, newUrl, oldUrl) ==
    [listener |-> k, via |-> "hide", args |-> <<newUrl, oldUrl>>,
     newUrl |-> newUrl, oldUrl |-> oldUrl,
     lastUrlSeen |-> oldUrl,
     cancelled |-> listenerState[k] = "cancelled"]

RECURSIVE notifyCalls(_, _, _)
\* the callback invocations when notify runs in the calls of targets, from the
\* k-th on, in the order in which the calls added their event listeners
notifyCalls(k, targets, newUrl) ==
    IF k > MaxListeners THEN <<>>
    ELSE IF k \in targets /\ routeChanged(newUrl, lastUrl[k])
    THEN <<NotifyCall(k, newUrl, lastUrl[k])>> \o notifyCalls(k + 1, targets, newUrl)
    ELSE notifyCalls(k + 1, targets, newUrl)

RECURSIVE hideCalls(_, _, _)
hideCalls(k, targets, newUrl) ==
    IF k > MaxListeners THEN <<>>
    ELSE IF k \in targets
    THEN <<HideCall(k, newUrl, lastUrl[k])>> \o hideCalls(k + 1, targets, newUrl)
    ELSE hideCalls(k + 1, targets, newUrl)

\* notify() in each call of targets, the location being u
notify(targets, u) ==
    /\ lastUrl' = [k \in Listeners |->
                      IF k \in targets /\ routeChanged(normalizePath(u), lastUrl[k])
                      THEN normalizePath(u) ELSE lastUrl[k]]
    /\ calls' = notifyCalls(1, targets, normalizePath(u))

\* fn is a wrapper: calling it dispatches 'locationchange'
dispatches(fn) == fn # Native

\* history.pushState._perfPatched
perfPatched(fn) == fn # Native

parserVars == <<inputVars, pc, loopVars, result, syncResult, sessionVars, eventVars,
                decodeVars>>

InitRouter ==
    /\ bodyText = Undefined
    /\ encodeBase64 = Undefined
    /\ opts = NoOpts
    /\ env = [worker |-> FALSE, ctorThrows |-> FALSE, postThrows |-> FALSE,
              textCodec |-> TRUE]
    /\ pc = "idle"
    /\ top = Undefined /\ i = 0 /\ out = <<>>
    /\ result = Pending
    /\ syncResult = NotCalled
    /\ NoSession
    /\ EventIdle
    /\ DecodeIdle
    /\ RouterIdle
    /\ HooksIdle

\* initRouterListener(onRouteChange), the k-th call
InitListener(k) ==
    /\ listenerState[k] = "none"
    /\ \A j \in Listeners : j < k => listenerState[j] # "none"
    /\ listenerState' = [listenerState EXCEPT ![k] = "active"]
    /\ lastUrl' = [lastUrl EXCEPT ![k] = normalizePath(href)]
    /\ savedPush' = [savedPush EXCEPT ![k] = pushState]
    /\ savedReplace' = [savedReplace EXCEPT ![k] = replaceState]
    /\ pushState' = IF perfPatched(pushState) THEN pushState ELSE k
    /\ replaceState' = IF perfPatched(replaceState) THEN replaceState ELSE k
    /\ calls' = <<>>
    /\ lastEvent' = "init"
    /\ UNCHANGED <<parserVars, hookVars, href, timers>>

\* the page calls history.pushState(..., u)
PushState(u) ==
    /\ href' = u
    /\ IF dispatches(pushState) THEN notify(Active, u)
       ELSE calls' = <<>> /\ UNCHANGED lastUrl
    /\ lastEvent' = "pushState"
    /\ UNCHANGED <<parserVars, hookVars, listenerState, savedPush, savedReplace, pushState,
                   replaceState, timers>>

\* the page calls history.replaceState(..., u)
ReplaceState(u) ==
    /\ href' = u
    /\ IF dispatches(replaceState) THEN notify(Active, u)
       ELSE calls' = <<>> /\ UNCHANGED lastUrl
    /\ lastEvent' = "replaceState"
    /\ UNCHANGED <<parserVars, hookVars, listenerState, savedPush, savedReplace, pushState,
                   replaceState, timers>>

\* back, forward or a change of the hash: the browser moves to u and fires
\* popstate or hashchange
PopState(u) ==
    /\ u # href
    /\ href' = u
    /\ notify(Active, u)
    /\ lastEvent' = "popstate"
    /\ UNCHANGED <<parserVars, hookVars, listenerState, savedPush, savedReplace, pushState,
                   replaceState, timers>>

\* a click on a same-origin link: clickHandler of every active call
Click ==
    /\ Active # {}
    /\ timers' = timers \cup Active
    /\ calls' = <<>>
    /\ lastEvent' = "click"
    /\ UNCHANGED <<parserVars, hookVars, href, listenerState, lastUrl, savedPush, savedReplace,
                   pushState, replaceState>>

\* the setTimeout(notify, 0) of call k fires
Timeout(k) ==
    /\ k \in timers
    /\ timers' = timers \ {k}
    /\ notify({k}, href)
    /\ lastEvent' = "timeout"
    /\ UNCHANGED <<parserVars, hookVars, href, listenerState, savedPush, savedReplace,
                   pushState, replaceState>>

\* beforeunload, or visibilitychange to hidden
Hide ==
    /\ Active # {}
    /\ calls' = hideCalls(1, Active, normalizePath(href))
    /\ lastEvent' = "hide"
    /\ UNCHANGED <<parserVars, hookVars, href, listenerState, lastUrl, savedPush, savedReplace,
                   pushState, replaceState, timers>>

\* the function that the k-th call returned
Cancel(k) ==
    /\ listenerState[k] = "active"
    /\ listenerState' = [listenerState EXCEPT ![k] = "cancelled"]
    /\ pushState' = savedPush[k]
    /\ replaceState' = savedReplace[k]
    /\ calls' = <<>>
    /\ lastEvent' = "cancel"
    /\ UNCHANGED <<parserVars, hookVars, href, lastUrl, savedPush, savedReplace, timers>>

NextRouter ==
    \/ \E k \in Listeners : InitListener(k)
    \/ \E u \in Hrefs : PushState(u)
    \/ \E u \in Hrefs : ReplaceState(u)
    \/ \E u \in Hrefs : PopState(u)
    \/ Click
    \/ \E k \in Listeners : Timeout(k)
    \/ Hide
    \/ \E k \in Listeners : Cancel(k)

SpecRouter == InitRouter /\ [][NextRouter]_vars

\* C19 as stated: on a route change notify invokes the callback with the new
\* normalized URL as its first argument and the previous URL as its second.
C19_CallbackGetsNewThenOld ==
    \A n \in 1..Len(calls) :
        calls[n].via = "notify" => calls[n].args = <<calls[n].newUrl, calls[n].oldUrl>>


\* no callback invocation of the last step was made for a cancelled call
QuietAfterCancel == \A n \in 1..Len(calls) : ~calls[n].cancelled

\* with every call of initRouterListener cancelled, the two functions of history
\* are the browser's own
RestoredWhenAllCancelled ==
    ((\E k \in Listeners : listenerState[k] = "cancelled") /\ Active = {}) =>
        (pushState = Native /\ replaceState = Native)

\* after another call was cancelled, an active call has seen the navigation that
\* history.pushState or history.replaceState just made
ActiveStillObserves ==
    ((\E k \in Listeners : listenerState[k] = "cancelled")
        /\ lastEvent \in {"pushState", "replaceState"}) =>
        \A k \in Active : lastUrl[k] = normalizePath(href)

\* C20 as stated: the function that initRouterListener returns cancels all that
\* the call installed: the callback is not invoked after it, history.pushState
\* and history.replaceState are the original functions once every call has been
\* cancelled, in any order, and cancelling one call does not stop another, still
\* active, from observing pushState and replaceState navigations.
C20_CancelUndoesOnlyItsOwn ==
    QuietAfterCancel /\ RestoredWhenAllCancelled /\ ActiveStillObserves


(***************************************************************************)
(* src/unnamed/part_002: useErrorHandler, the de-duplication and the rate  *)
(* limit of one handler instance                                           *)
(***************************************************************************)
DEFAULT_MAX_RECENT_ERRORS == 500
DefaultDedupIntervalMs == 60 * 1000
DefaultRateLimitPerMinute == 300
MinMaxRecentErrors == 100
RateWindowMs == 60000
\* the number Infinity, as a rate limit
Infinity == 0 - 1

Max(a, b) == IF a > b THEN a ELSE b

\* Number.isFinite(v)
IsFinite(v) == v.t = "number" /\ "n" \in DOMAIN v

\* Number.isFinite(v) && v > 0 ? Number(v) : otherwise
positiveOr(v, otherwise) == IF IsFinite(v) THEN (IF v.n > 0 THEN v.n ELSE otherwise) ELSE otherwise

\* the normalized cfg of useErrorHandler(options)
normalizeCfg(options) ==
    [dedupIntervalMs |-> positiveOr(options.dedupIntervalMs, DefaultDedupIntervalMs),
     rateLimitPerMinute |->
         IF options.rateLimitPerMinute = Undefined
         THEN DefaultRateLimitPerMinute
         ELSE positiveOr(options.rateLimitPerMinute, Infinity),
     maxRecentErrors |->
         Max(MinMaxRecentErrors,
             IF IsFinite(options.maxRecentErrors) THEN options.maxRecentErrors.n
             ELSE DEFAULT_MAX_RECENT_ERRORS),
     handler |-> "instance"]

\* errorHandler.js: the handler of the module, with its fixed limits
ERROR_DEDUP_MS == 60 * 1000
ModuleMaxPerMinute == 300
ModuleMaxRecent == 1000
ModuleDropCount == 100
ModuleCfg ==
    [dedupIntervalMs |-> ERROR_DEDUP_MS, rateLimitPerMinute |-> ModuleMaxPerMinute,
     maxRecentErrors |-> ModuleMaxRecent, handler |-> "module"]

\* recentErrors.has(key)
mapHas(recent, key) == \E n \in 1..Len(recent) : recent[n].key = key

\* recentErrors.get(key): the time, or 0 for undefined (both are falsy)
mapGet(recent, key) ==
    IF mapHas(recent, key)
    THEN recent[CHOOSE n \in 1..Len(recent) : recent[n].key = key].ts
    ELSE 0

\* recentErrors.set(key, ts): a key that the Map has keeps its place in the
\* insertion order
mapSet(recent, key, ts) ==
    IF mapHas(recent, key)
    THEN [n \in 1..Len(recent) |->
             IF recent[n].key = key THEN [key |-> key, ts |-> ts] ELSE recent[n]]
    ELSE Append(recent, [key |-> key, ts |-> ts])

\* for (const [k, ts] of recentErrors) if (now - ts > ttl) recentErrors.delete(k)
dropExpired(recent, t, ttl) == SelectSeq(recent, LAMBDA e : ~(t - e.ts > ttl))

\* the oldest keys, in insertion order, are removed down to max entries
dropOldest(recent, max) ==
    IF Len(recent) > max THEN SubSeq(recent, Len(recent) - max + 1, Len(recent))
    ELSE recent

pruneRecentErrors(recent, t, c) ==
    IF Len(recent) = 0 THEN recent
    ELSE dropOldest(dropExpired(recent, t, Max(c.dedupIntervalMs, RateWindowMs)),
                    c.maxRecentErrors)

\* errorHandler.js: Array.from(recentErrors.keys()).slice(0, 100) are deleted
dropFirst(recent, n) ==
    IF Len(recent) > n THEN SubSeq(recent, n + 1, Len(recent)) ELSE <<>>

\* pruneIfLarge that never removes a key
Mut_pruneIfLarge(recent, t, c) == recent

\* if (recentErrors.size > cfg.maxRecentErrors) pruneRecentErrors(); the handler of
\* the module deletes its 100 oldest keys instead
pruneIfLarge(recent, t, c) ==
    IF Len(recent) > c.maxRecentErrors
    THEN (IF c.handler = "module" THEN dropFirst(recent, ModuleDropCount)
          ELSE pruneRecentErrors(recent, t, c))
    ELSE recent

\* if (!key) key = 'unknown'
effectiveKey(key) == IF key = "" THEN "unknown" ELSE key

\* the keys a handler is called with: those of the module are never empty
keysOf(c, keys) == IF c.handler = "module" THEN keys \ {""} ELSE keys

\* now - windowStart > 60_000
windowOver(t, start) == t - start > RateWindowMs

\* ++countInWindow > cfg.rateLimitPerMinute, the count already incremented
Mut_overLimit(count, limit) == limit # Infinity /\ count > limit + 1
overLimit(count, limit) == limit # Infinity /\ count > limit

\* last && (now - last) < (cfg.dedupIntervalMs || 0)
isDuplicate(last, t, c) == last # 0 /\ t - last < c.dedupIntervalMs

\* what shouldSendError returns, the window being (start, count) after its reset
sendAllowed(key, t, count, c) ==
    IF overLimit(count, c.rateLimitPerMinute) THEN FALSE
    ELSE ~isDuplicate(mapGet(recentErrors, key), t, c)

Epoch == 1000000
MaxCalls == 4
MaxTicks == 1
\* the keys already recorded when the model starts
Prefills == {0, 99}
Deltas == {1, 59999, 60001}
WatchedKeys == {"", "a"}
FreshKey(n) == "k" \o ToString(n)

ErrorOptions ==
    {[dedupIntervalMs |-> d, rateLimitPerMinute |-> r, maxRecentErrors |-> m] :
        d \in {Undefined, Num(1000)},
        r \in {Undefined, Num(0), Num(2)},
        m \in {Undefined, Num(1)}}

\* the instance after m calls at the instant it was made: key 'a', then m - 1
\* keys that differ from each other
Prefilled(m) ==
    [n \in 1..m |-> [key |-> IF n = 1 THEN "a" ELSE FreshKey(n - 1), ts |-> Epoch]]

\* the handler of the module after m calls, a quarter of them in each of four
\* rate windows that are over: key 'a', then m - 1 keys that differ from each other
ModulePrefills == {0, ModuleMaxRecent}
windowsAgo(n, m) == 4 - ((n - 1) \div (m \div 4))
ModulePrefilled(m) ==
    [n \in 1..m |-> [key |-> IF n = 1 THEN "a" ELSE FreshKey(n - 1),
                     ts |-> Epoch - windowsAgo(n, m) * (RateWindowMs + 1)]]

InitErrors ==
    /\ bodyText = Undefined
    /\ encodeBase64 = Undefined
    /\ opts = NoOpts
    /\ env = [worker |-> FALSE, ctorThrows |-> FALSE, postThrows |-> FALSE,
              textCodec |-> TRUE]
    /\ pc = "idle"
    /\ top = Undefined /\ i = 0 /\ out = <<>>
    /\ result = Pending
    /\ syncResult = NotCalled
    /\ NoSession
    /\ EventIdle
    /\ DecodeIdle
    /\ RouterIdle
    /\ \/ \E options \in ErrorOptions, m \in Prefills :
             /\ cfg = normalizeCfg(options)
             /\ ~overLimit(m, cfg.rateLimitPerMinute)
             /\ recentErrors = Prefilled(m)
             /\ countInWindow = m
             /\ truesInWindow = m
             /\ nFresh = IF m = 0 THEN 0 ELSE m - 1
             /\ trueAt = [k \in {"unknown", "a"} |->
                             IF k = "a" /\ m > 0 THEN Epoch ELSE 0]
             /\ windowStart = Epoch
       \/ \E m \in ModulePrefills :
             /\ cfg = ModuleCfg
             /\ recentErrors = ModulePrefilled(m)
             /\ countInWindow = m \div 4
             /\ truesInWindow = m \div 4
             /\ nFresh = IF m = 0 THEN 0 ELSE m - 1
             /\ trueAt = [k \in {"unknown", "a"} |->
                             IF k = "a" /\ m > 0 THEN Epoch - 4 * (RateWindowMs + 1)
                             ELSE 0]
             /\ windowStart = IF m = 0 THEN Epoch ELSE Epoch - (RateWindowMs + 1)
    /\ HandlersIdle
    /\ TrackerIdle
    /\ FetchIdle
    /\ now = Epoch
    /\ lastKey = "" /\ lastReturn = FALSE /\ prevTrueAt = 0
    /\ nCalls = 0 /\ nTicks = 0

\* shouldSendError(key) with the window (start, count) that its first lines leave
ShouldSendIn(key, start, count, fresh) ==
    /\ windowStart' = start
    /\ countInWindow' = count
    /\ lastKey' = key
    /\ lastReturn' = sendAllowed(key, now, count, cfg)
    /\ prevTrueAt' = IF fresh THEN 0 ELSE trueAt[key]
    /\ recentErrors' = IF lastReturn'
                       THEN pruneIfLarge(mapSet(recentErrors, key, now), now, cfg)
                       ELSE recentErrors
    /\ trueAt' = IF lastReturn' /\ ~fresh THEN [trueAt EXCEPT ![key] = now] ELSE trueAt
    /\ truesInWindow' = (IF start = windowStart THEN truesInWindow ELSE 0)
                        + (IF lastReturn' THEN 1 ELSE 0)
    /\ nCalls' = nCalls + 1
    /\ UNCHANGED <<parserVars, routerVars, handlerVars, trackerVars, fetchVars, cfg, now, nTicks>>

\* shouldSendError(key) that counts no call in a window already open
Mut_ShouldSend(key, fresh) ==
    /\ nCalls < MaxCalls
    /\ IF windowOver(now, windowStart)
       THEN ShouldSendIn(effectiveKey(key), now, 1, fresh)
       ELSE ShouldSendIn(effectiveKey(key), windowStart, countInWindow, fresh)

\* shouldSendError(key)
ShouldSend(key, fresh) ==
    /\ nCalls < MaxCalls
    /\ IF windowOver(now, windowStart)
       THEN ShouldSendIn(effectiveKey(key), now, 1, fresh)
       ELSE ShouldSendIn(effectiveKey(key), windowStart, countInWindow + 1, fresh)

\* an error whose key was reported before, or is one of the watched keys
ReportWatched ==
    \E key \in keysOf(cfg, WatchedKeys) : ShouldSend(key, FALSE) /\ UNCHANGED nFresh

\* an error whose key was never reported
ReportFresh == ShouldSend(FreshKey(nFresh + 1), TRUE) /\ nFresh' = nFresh + 1

\* time passes
Tick ==
    /\ nTicks < MaxTicks
    /\ \E d \in Deltas : now' = now + d
    /\ nTicks' = nTicks + 1
    /\ lastKey' = ""
    /\ UNCHANGED <<parserVars, routerVars, handlerVars, trackerVars, fetchVars, cfg, recentErrors,
                   windowStart,
                   countInWindow,
                   lastReturn, prevTrueAt, trueAt, truesInWindow, nCalls, nFresh>>

NextErrors == ReportWatched \/ ReportFresh \/ Tick

SpecErrors == InitErrors /\ [][NextErrors]_vars

\* C21 as stated: two shouldSendError calls with the same key less than the
\* de-duplication interval apart never both return true, whatever other keys are
\* reported in between and however many keys have been recorded.
C21_NoTwoTruesWithinInterval ==
    (lastKey # "" /\ lastReturn /\ prevTrueAt # 0) =>
        now - prevTrueAt >= cfg.dedupIntervalMs


\* C22: between two resets of the rate window shouldSendError returns true at
\* most cfg.rateLimitPerMinute times, whatever the keys are.
C22_AtMostLimitPerWindow ==
    cfg.rateLimitPerMinute # Infinity => truesInWindow <= cfg.rateLimitPerMinute

\* a key never reported before was refused because the window was full
C22_Witness ==
    /\ cfg.rateLimitPerMinute # Infinity
    /\ lastKey # "" /\ ~lastReturn /\ prevTrueAt = 0
    /\ ~mapHas(recentErrors, lastKey)
    /\ truesInWindow = cfg.rateLimitPerMinute
    /\ countInWindow > cfg.rateLimitPerMinute


(***************************************************************************)
(* src/unnamed/part_002: setup and teardown of the handler instances, in a *)
(* browser (window is defined, window.onerror can be assigned)             *)
(***************************************************************************)
RECURSIVE wrappersFrom(_, _)
\* the instances whose onErrorWrapper runs when fn is called as window.onerror:
\* a wrapper calls its instance's _origOnError
wrappersFrom(fn, seen) ==
    IF fn = PageOnError \/ fn \in seen THEN seen
    ELSE wrappersFrom(origOnError[fn], seen \cup {fn})

InitHandlers ==
    /\ bodyText = Undefined
    /\ encodeBase64 = Undefined
    /\ opts = NoOpts
    /\ env = [worker |-> FALSE, ctorThrows |-> FALSE, postThrows |-> FALSE,
              textCodec |-> TRUE]
    /\ pc = "idle"
    /\ top = Undefined /\ i = 0 /\ out = <<>>
    /\ result = Pending
    /\ syncResult = NotCalled
    /\ NoSession
    /\ EventIdle
    /\ DecodeIdle
    /\ RouterIdle
    /\ HooksIdle

\* setup() past its test of _installed: the listeners are added (a listener
\* that window already has is not added twice), window.onerror is saved and
\* replaced
install(k) ==
    /\ errorListeners' = errorListeners \cup {k}
    /\ rejectionListeners' = rejectionListeners \cup {k}
    /\ origOnError' = [origOnError EXCEPT ![k] = onerror]
    /\ onerror' = k
    /\ installed' = [installed EXCEPT ![k] = TRUE]

\* setup() without `if (_installed) return true`
Mut_setup(k) ==
    /\ handlerOp' = [op |-> IF installed[k] THEN "setup again" ELSE "setup", k |-> k]
    /\ install(k)
    /\ reached' = {}
    /\ UNCHANGED <<parserVars, routerVars, errorVars, trackerVars, fetchVars>>

\* setup() of instance k: it returns at once when the instance is installed
setup(k) ==
    /\ handlerOp' = [op |-> IF installed[k] THEN "setup again" ELSE "setup", k |-> k]
    /\ IF installed[k]
       THEN UNCHANGED <<onerror, errorListeners, rejectionListeners, installed,
                        origOnError>>
       ELSE install(k)
    /\ reached' = {}
    /\ UNCHANGED <<parserVars, routerVars, errorVars, trackerVars, fetchVars>>

\* teardown() of instance k, installed
teardown(k) ==
    /\ installed[k]
    /\ errorListeners' = errorListeners \ {k}
    /\ rejectionListeners' = rejectionListeners \ {k}
    /\ onerror' = origOnError[k]
    /\ installed' = [installed EXCEPT ![k] = FALSE]
    /\ reached' = {}
    /\ handlerOp' = [op |-> "teardown", k |-> k]
    /\ UNCHANGED <<parserVars, routerVars, errorVars, trackerVars, fetchVars, origOnError>>

\* a script error: the 'error' listeners of window run, and window.onerror
WindowError ==
    /\ reached' = errorListeners \cup wrappersFrom(onerror, {})
    /\ handlerOp' = [op |-> "error", k |-> 0]
    /\ UNCHANGED <<parserVars, routerVars, errorVars, trackerVars, fetchVars, onerror, errorListeners,
                   rejectionListeners, installed, origOnError>>

NextHandlers ==
    \/ \E k \in Handlers : setup(k)
    \/ \E k \in Handlers : teardown(k)
    \/ WindowError

SpecHandlers == InitHandlers /\ [][NextHandlers]_vars

\* C23 as stated: when every instance has been torn down, after any sequence of
\* setup and teardown calls, window.onerror is the handler that was there before
\* the first setup, and no listener and no onerror wrapper of an instance can
\* still be reached from window.
C23_TeardownRestores ==
    (\A k \in Handlers : ~installed[k]) =>
        /\ onerror = PageOnError
        /\ errorListeners = {} /\ rejectionListeners = {}
        /\ reached = {}


(***************************************************************************)
(* src/unnamed/part_004: FrontendTracker, one instance.  The router it is  *)
(* given is of one of five kinds: no router; a router whose afterEach      *)
(* returns a function that removes the hook; one that returns nothing but  *)
(* has off(); one that has neither; one whose afterEach throws.            *)
(***************************************************************************)
RouterKinds == {"none", "unregister", "off", "bare", "throws"}
MaxStarts == 3

TrackerEnvs ==
    {[router |-> r, url |-> u, enablePageView |-> p, enableErrHandler |-> e] :
        r \in RouterKinds, u \in BOOLEAN, p \in BOOLEAN, e \in BOOLEAN}

\* the fields after startPageTracking(router), page tracking not started before
startedTracker(t, router) ==
    CASE router = "none" -> [t EXCEPT !.routerOff = "cancel", !.started = TRUE]
      [] router = "unregister" ->
            [t EXCEPT !.routerInstance = TRUE, !.routerHook = TRUE,
                      !.routerOff = "unregister", !.started = TRUE]
      [] router = "throws" ->
            [t EXCEPT !.routerInstance = TRUE, !.routerHook = TRUE,
                      !.routerOff = "cancel", !.started = TRUE]
      [] OTHER ->
            [t EXCEPT !.routerInstance = TRUE, !.routerHook = TRUE,
                      !.routerOff = "null", !.started = TRUE]

\* whether startPageTracking leaves a hook on the router (afterEach took it), or
\* a router listener (initRouterListener)
hooksRouter(router) == router \in {"unregister", "off", "bare"}

\* startPageTracking(router) on the fields t
startPageTracking(t) ==
    IF t.started
    THEN /\ tracker' = t
         /\ pageViews' = 0
         /\ UNCHANGED <<routerHooks, pageListeners, nStarts>>
    ELSE /\ tracker' = startedTracker(t, trackerEnv.router)
         /\ pageViews' = 1
         /\ routerHooks' = routerHooks + (IF hooksRouter(trackerEnv.router) THEN 1 ELSE 0)
         /\ pageListeners' = pageListeners + (IF hooksRouter(trackerEnv.router) THEN 0 ELSE 1)
         /\ nStarts' = nStarts + 1

\* what stopPageTracking removes: the hook when the router gave a function to
\* remove it or has off(), the listener by its cancel function
removesHook(t) ==
    t.routerOff = "unregister"
        \/ (t.routerOff = "null" /\ t.routerHook /\ t.routerInstance
                /\ trackerEnv.router = "off")
removesListener(t) == t.routerOff = "cancel"

\* stopPageTracking() on the fields t
stopPageTracking(t) ==
    IF ~t.started
    THEN /\ tracker' = t
         /\ UNCHANGED <<routerHooks, pageListeners>>
    ELSE /\ tracker' = [t EXCEPT !.routerOff = "null", !.routerHook = FALSE,
                                 !.routerInstance = FALSE, !.started = FALSE]
         /\ routerHooks' = routerHooks - (IF removesHook(t) THEN 1 ELSE 0)
         /\ pageListeners' = pageListeners - (IF removesListener(t) THEN 1 ELSE 0)

InitTracker ==
    /\ bodyText = Undefined
    /\ encodeBase64 = Undefined
    /\ opts = NoOpts
    /\ env = [worker |-> FALSE, ctorThrows |-> FALSE, postThrows |-> FALSE,
              textCodec |-> TRUE]
    /\ pc = "idle"
    /\ top = Undefined /\ i = 0 /\ out = <<>>
    /\ result = Pending
    /\ syncResult = NotCalled
    /\ NoSession
    /\ EventIdle
    /\ DecodeIdle
    /\ RouterIdle
    /\ ErrorIdle
    /\ HandlersIdle
    /\ FetchIdle
    /\ tracker = NewTracker
    /\ trackerEnv \in TrackerEnvs
    /\ routerHooks = 0 /\ pageListeners = 0 /\ pageViews = 0
    /\ trackerOp = "none"
    /\ nStarts = 0
    /\ initRun = NoInits

otherThanTracker == <<parserVars, routerVars, errorVars, handlerVars, fetchVars, trackerEnv>>

\* init(router) past the check of _inited: it throws when url is missing,
\* before anything is created or installed
initialize ==
    IF ~trackerEnv.url
    THEN /\ trackerOp' = "init threw"
         /\ pageViews' = 0
         /\ UNCHANGED <<tracker, routerHooks, pageListeners, nStarts, initRun>>
    ELSE /\ trackerOp' = "init"
         /\ IF trackerEnv.enablePageView
            THEN startPageTracking(
                     [tracker EXCEPT !.inited = TRUE,
                                     !.errorSetup = @ \/ trackerEnv.enableErrHandler])
            ELSE /\ tracker' = [tracker EXCEPT
                                   !.inited = TRUE,
                                   !.errorSetup = @ \/ trackerEnv.enableErrHandler]
                 /\ pageViews' = 0
                 /\ UNCHANGED <<routerHooks, pageListeners, nStarts>>
         /\ initRun' = [initRun EXCEPT
                           !.created = @ + 1,
                           !.setups = @ + (IF trackerEnv.enableErrHandler THEN 1 ELSE 0),
                           !.views = @ + pageViews']

\* init(router) without the check of _inited
Mut_TrackerInit ==
    /\ nStarts < MaxStarts
    /\ initialize
    /\ UNCHANGED otherThanTracker

\* init(router): an initialized instance returns itself at once
TrackerInit ==
    /\ nStarts < MaxStarts
    /\ IF tracker.inited
       THEN /\ trackerOp' = "init again"
            /\ pageViews' = 0
            /\ UNCHANGED <<tracker, routerHooks, pageListeners, nStarts, initRun>>
       ELSE initialize
    /\ UNCHANGED otherThanTracker

\* stop()
TrackerStop ==
    /\ trackerOp' = "stop"
    /\ stopPageTracking([tracker EXCEPT !.errorSetup = FALSE, !.inited = FALSE])
    /\ pageViews' = 0
    /\ initRun' = [NoInits EXCEPT !.manual = initRun.manual]
    /\ UNCHANGED <<otherThanTracker, nStarts>>

\* startPageTracking(router), called by the page
StartPageTracking ==
    /\ nStarts < MaxStarts
    /\ trackerOp' = "start"
    /\ startPageTracking(tracker)
    /\ initRun' = [initRun EXCEPT !.manual = TRUE]
    /\ UNCHANGED otherThanTracker

\* stopPageTracking(), called by the page
StopPageTracking ==
    /\ trackerOp' = "stop tracking"
    /\ stopPageTracking(tracker)
    /\ pageViews' = 0
    /\ initRun' = [initRun EXCEPT !.manual = TRUE]
    /\ UNCHANGED <<otherThanTracker, nStarts>>

\* the page navigates: the router runs its afterEach hooks, and the router
\* listeners see the new location
Navigate ==
    /\ trackerOp' = "navigate"
    /\ pageViews' = routerHooks + pageListeners
    /\ UNCHANGED <<otherThanTracker, tracker, routerHooks, pageListeners, nStarts, initRun>>

NextTracker ==
    TrackerInit \/ TrackerStop \/ StartPageTracking \/ StopPageTracking \/ Navigate

SpecTracker == InitTracker /\ [][NextTracker]_vars

\* C24 as stated: after stop() no route hook and no router listener of the
\* instance is active, so after init, stop, init exactly one page-view hook is
\* active and each later navigation reports exactly one page view.
C24_StopUninstalls ==
    /\ trackerOp = "stop" => routerHooks + pageListeners = 0
    /\ tracker.started => routerHooks + pageListeners = 1
    /\ (trackerOp = "navigate" /\ tracker.started) => pageViews = 1


BelowThresholds ==
    /\ topLevelCount(bodyText) < opts.workerThresholdEvents
    /\ estimatedBytes(bodyText) < opts.workerThresholdBytes

IsStructured(ev) == Get(ev, "e") \in {Str("se"), Str("structured_event")}

\* the events C27 states to be self-describing
StatedSelfDescribing(ev) ==
    /\ ~IsStructured(ev)
    /\ \/ Get(ev, "e") \in {Str("ue"), Str("unstruct")}
       \/ Get(ev, "unstruct_event") # Undefined

\* C27 as stated: a raw event object is normalized with eventType 'unstruct' if
\* and only if it is not structured and either its e is 'ue' or 'unstruct' or it
\* carries an unstruct_event field.
C27_SelfDescribingIff ==
    IsEvent(normalizedOnce) =>
        (Get(normalizedOnce, "eventType") = Str("unstruct")
            <=> StatedSelfDescribing(bodyText))


\* the carriers of the order that decode
decodedCarriers(ordered) == SelectSeq(ordered, LAMBDA c : tryNormalize(c) # Null)
\* the carriers of the order that the event has
presentCarriers(ordered) == {ordered[k] : k \in 1..Len(ordered)} \ {Undefined}

\* what C28 states of the event made from the carriers in the order: schema and
\* payload come from the first carrier that decodes, and the payload is a raw
\* carrier value when none decodes
StatedFromCarriers(event, ordered, decoding) ==
    IF decoding # <<>>
    THEN /\ Get(event, "schema") = schemaOf(tryNormalize(Head(decoding)))
         /\ Get(event, "payload") = unwrapOnce(payloadOf(tryNormalize(Head(decoding))))
    ELSE Get(event, "payload") \in presentCarriers(ordered)

\* C28 as stated: for a self-describing event the first carrier of the chosen
\* order that decodes supplies schema and payload, and if no carrier decodes the
\* payload is the raw carrier value verbatim.
C28_FirstDecodingCarrier ==
    (IsEvent(normalizedOnce) /\ Get(bodyText, "e") \in {Str("ue"), Str("unstruct")}) =>
        StatedFromCarriers(normalizedOnce, carrierOrder(bodyText, encodeBase64),
                           decodedCarriers(carrierOrder(bodyText, encodeBase64)))


\* the raw event matches none of the structured, self-describing and page-view
\* tests of parseSnowplowEvent
TakesFallback(ev) ==
    /\ ~IsStructured(ev)
    /\ Get(ev, "e") \notin {Str("ue"), Str("unstruct"), Str("pv")}
    /\ Get(ev, "event") # Str("page_view")

\* a field that is there: neither undefined nor null
IsPresent(v) == v # Undefined /\ v # Null

\* the eventType C29 states for the fallback branch
StatedEventType(ev) ==
    IF IsPresent(Get(ev, "e")) THEN Get(ev, "e")
    ELSE IF IsPresent(Get(ev, "event")) THEN Get(ev, "event")
    ELSE Str("unknown")

\* C29 as stated: every normalized event has a non-null eventType, and on the
\* fallback branch eventType is e when e is present, else event when event is
\* present, else 'unknown', with the raw object as payload.
C29_AsStated ==
    IsEvent(normalizedOnce) =>
        /\ IsPresent(Get(normalizedOnce, "eventType"))
        /\ TakesFallback(bodyText) =>
               /\ Get(normalizedOnce, "eventType") = StatedEventType(bodyText)
               /\ Get(normalizedOnce, "payload") = bodyText

\* the eventType of the fallback branch: a discriminator counts only when it is
\* truthy
TruthyEventType(ev) ==
    IF Truthy(Get(ev, "e")) THEN Get(ev, "e")
    ELSE IF Truthy(Get(ev, "event")) THEN Get(ev, "event")
    ELSE Str("unknown")

\* C29 amended: every normalized event has a non-null eventType, and on the
\* fallback branch eventType is e when e is truthy, else event when event is
\* truthy, else 'unknown' (an empty e is passed over), with the raw object as
\* payload.
C29_Amended ==
    IsEvent(normalizedOnce) =>
        /\ IsPresent(Get(normalizedOnce, "eventType"))
        /\ TakesFallback(bodyText) =>
               /\ Get(normalizedOnce, "eventType") = TruthyEventType(bodyText)
               /\ Get(normalizedOnce, "payload") = bodyText

\* C29 witness: the fallback branch taken by an event whose e is the empty
\* string: eventType is its event, payload the raw object
C29_Witness ==
    /\ IsEvent(normalizedOnce) /\ TakesFallback(bodyText)
    /\ Get(bodyText, "e") = Str("")
    /\ Get(normalizedOnce, "eventType") = Get(bodyText, "event")
    /\ Get(normalizedOnce, "payload") = bodyText


\* the property C30 states for se_pr: the parsed value of a string that holds
\* valid JSON, the string itself when it does not, null when se_pr is absent
StatedProperty(se_pr) ==
    IF se_pr = Undefined THEN Null
    ELSE IF TypeOf(se_pr) = "string" /\ JSONparse(se_pr) # Throw THEN JSONparse(se_pr)
    ELSE se_pr

\* a field of the structured event is the field of the raw event it is taken from
TakenFrom(event, name, ev, field) ==
    IsPresent(Get(ev, field)) => Get(event, name) = Get(ev, field)

\* C30 as stated: a structured event normalizes to eventType 'structured_event'
\* with category, action and label taken from se_ca, se_ac and se_la, and with
\* property the parsed se_pr when se_pr is a string of valid JSON, the unchanged
\* string when it is not, and null when se_pr is absent.
C30_StructuredFields ==
    (IsEvent(normalizedOnce) /\ IsStructured(bodyText)) =>
        /\ Get(normalizedOnce, "eventType") = Str("structured_event")
        /\ TakenFrom(normalizedOnce, "category", bodyText, "se_ca")
        /\ TakenFrom(normalizedOnce, "action", bodyText, "se_ac")
        /\ TakenFrom(normalizedOnce, "label", bodyText, "se_la")
        /\ Get(normalizedOnce, "property") = StatedProperty(Get(bodyText, "se_pr"))


BodyText == Str("raw")
PlainObject == [t |-> "plain"]
Blob == [t |-> "blob"]
Cyclic == [t |-> "cyclic"]
Events == [t |-> "events"]
Formatted == [t |-> "formatted"]
\* { error: 'serialization_failed', originalUrl, ts }, serialized
Envelope == Str("{\"error\":\"serialization_failed\"}")

\* JSON.stringify on the values of the call
stringify(v) ==
    CASE v = Null -> Str("null")
      [] v = PlainObject -> Str("{raw}")
      [] v = Blob -> Str("{}")
      [] v = Events -> Str("[events]")
      [] v = Formatted -> Str("{formatted}")
      [] v = Cyclic -> Throw
      [] v = Undefined -> Undefined
      [] OTHER -> Str("\"" \o v.s \o "\"")

\* String(v) on the raw bodies
ToStringOf(v) ==
    CASE v = Blob -> Str("[object Blob]")
      [] v = Cyclic -> Str("[object Object]")
      [] v = PlainObject -> Str("[object Object]")
      [] OTHER -> v

\* the inputs: a URL text, a Request, a URL object, each for the collector or not
FetchInputs ==
    {"collectorText", "otherText", "collectorRequest", "otherRequest", "collectorUrlObject"}
IsRequest(input) == input \in {"collectorRequest", "otherRequest"}
\* the bodies: init.body, or for a Request the text that clone().text() gives,
\* null when reading it fails
FetchBodies(input) ==
    IF IsRequest(input) THEN {Null, BodyText}
    ELSE {Undefined, Null, BodyText, PlainObject, Blob, Cyclic}
\* what formatInput is: absent, or a function that returns an object, a text,
\* undefined or an object that cannot be serialized, that throws, or whose
\* promise rejects
FormatKinds == {"none", "object", "text", "undefined", "cyclic", "throws", "rejects"}

FetchEnvs ==
    {e \in [input : FetchInputs,
            body : {Undefined, Null, BodyText, PlainObject, Blob, Cyclic},
            transform : {"events", "throws"},
            formatInput : FormatKinds] : e.body \in FetchBodies(e.input)}

\* typeof input === 'string' ? input : (input && input.url)
originalUrlOf(input) ==
    CASE input \in {"collectorText", "collectorRequest"} -> "collector"
      [] input \in {"otherText", "otherRequest"} -> "other"
      [] OTHER -> "undefined"

\* step 1: the raw body read from the Request, or init.body ?? null with a plain
\* object serialized when it can be
rawBodyOf(e) ==
    IF IsRequest(e.input) THEN e.body
    ELSE IF e.body = Undefined THEN Null
    ELSE IF e.body = PlainObject THEN stringify(e.body)
    ELSE e.body

\* !originalUrl || !originalUrl.includes(collectorPath)
passesThrough(url) == url # "collector"

\* fetch(input, init) with the arguments of the call
PassThrough == [url |-> "input", init |-> "init"]
\* fetch(outboundUrl, { method: 'POST', body, ... })
Post(body) == [url |-> "outboundUrl", init |-> [method |-> "POST", body |-> body]]

\* step 3: transformSnowplowPayload(rawBody), the raw body when it throws
transformedOf(e, raw) == IF e.transform = "throws" THEN raw ELSE Events

\* step 4: formatInput(transformed), transformed when there is none or it fails
finalPayloadOf(e, transformed) ==
    CASE e.formatInput = "object" -> Formatted
      [] e.formatInput = "text" -> Str("final")
      [] e.formatInput = "undefined" -> Undefined
      [] e.formatInput = "cyclic" -> Cyclic
      [] OTHER -> transformed

\* step 5, the try block: a string as it is, else JSON.stringify
serialized(final, transformed) ==
    IF final.t = "string" THEN final
    ELSE stringify(IF final = Undefined THEN transformed ELSE final)

\* step 5, the catch block: the raw body as text if there is one, else the envelope
serializationFallback(raw) == IF raw # Null THEN ToStringOf(raw) ELSE Envelope

bodyToSendOf(final, transformed, raw) ==
    IF serialized(final, transformed) = Throw THEN serializationFallback(raw)
    ELSE serialized(final, transformed)

InitFetch ==
    /\ bodyText = Undefined
    /\ encodeBase64 = Undefined
    /\ opts = NoOpts
    /\ env = [worker |-> FALSE, ctorThrows |-> FALSE, postThrows |-> FALSE,
              textCodec |-> TRUE]
    /\ pc = "idle"
    /\ top = Undefined /\ i = 0 /\ out = <<>>
    /\ result = Pending
    /\ syncResult = NotCalled
    /\ NoSession
    /\ EventIdle
    /\ DecodeIdle
    /\ RouterIdle
    /\ ErrorIdle
    /\ HandlersIdle
    /\ TrackerIdle
    /\ fetchEnv \in FetchEnvs
    /\ fetchRun = [at |-> "called", originalUrl |-> "undefined", rawBody |-> Null,
                   transformed |-> Null, finalPayload |-> Null, fetches |-> <<>>]

otherThanFetch == <<parserVars, routerVars, errorVars, handlerVars, trackerVars, fetchEnv>>

\* step 1: originalUrl and rawBody
ReadRequest ==
    /\ fetchRun.at = "called"
    /\ fetchRun' = [fetchRun EXCEPT !.at = "read",
                                    !.originalUrl = originalUrlOf(fetchEnv.input),
                                    !.rawBody = rawBodyOf(fetchEnv)]
    /\ UNCHANGED otherThanFetch

\* step 2: a request that is not for the collector is handed to fetch as it came
RouteRequest ==
    /\ fetchRun.at = "read"
    /\ fetchRun' = IF passesThrough(fetchRun.originalUrl)
                   THEN [fetchRun EXCEPT !.at = "returned",
                                         !.fetches = Append(@, PassThrough)]
                   ELSE [fetchRun EXCEPT !.at = "routed"]
    /\ UNCHANGED otherThanFetch

\* step 3
TransformBody ==
    /\ fetchRun.at = "routed"
    /\ fetchRun' = [fetchRun EXCEPT !.at = "transformed",
                                    !.transformed = transformedOf(fetchEnv, fetchRun.rawBody)]
    /\ UNCHANGED otherThanFetch

\* step 4
FormatPayload ==
    /\ fetchRun.at = "transformed"
    /\ fetchRun' = [fetchRun EXCEPT !.at = "formatted",
                                    !.finalPayload =
                                        finalPayloadOf(fetchEnv, fetchRun.transformed)]
    /\ UNCHANGED otherThanFetch

\* steps 5 to 8: the payload is serialized and posted to outboundUrl
SendPayload ==
    /\ fetchRun.at = "formatted"
    /\ fetchRun' = [fetchRun EXCEPT
                       !.at = "returned",
                       !.fetches = Append(@, Post(bodyToSendOf(fetchRun.finalPayload,
                                                               fetchRun.transformed,
                                                               fetchRun.rawBody)))]
    /\ UNCHANGED otherThanFetch

NextFetch == ReadRequest \/ RouteRequest \/ TransformBody \/ FormatPayload \/ SendPayload

SpecFetch == InitFetch /\ [][NextFetch]_vars

\* the URL of the request contains collectorPath
ForCollector(e) == e.input \in {"collectorText", "collectorRequest", "collectorUrlObject"}

\* the body of the request as it can be forwarded: itself, the JSON text of a
\* plain object, null for no body
RawBodyForms(e) ==
    CASE e.body \in {Undefined, Null} -> {Null, Str("null")}
      [] e.body = PlainObject -> {PlainObject, stringify(PlainObject)}
      [] OTHER -> {e.body}

\* the text of the body of the request, when it has one
RawBodyTexts(e) ==
    CASE e.body = BodyText -> {BodyText}
      [] e.body = PlainObject -> {stringify(PlainObject)}
      [] e.body = Blob -> {Str("blob text")}
      [] OTHER -> {}

formatFails(e) == e.formatInput \in {"throws", "rejects"}
serializationFails(run) == serialized(run.finalPayload, run.transformed) = Throw

\* the body C32 states for the POST of a collector request
StatedPost(e, run, body) ==
    /\ (e.transform = "throws" /\ e.formatInput = "none" /\ ~serializationFails(run)) =>
           body \in RawBodyForms(e)
    /\ (e.transform = "events" /\ formatFails(e)) => body = stringify(Events)
    /\ serializationFails(run) => body \in RawBodyTexts(e) \cup {Envelope}

\* C32 as stated: a call of customFetch issues exactly one fetch: the original
\* (input, init) when the URL of the request does not contain collectorPath, else
\* one POST to outboundUrl, whose body is the raw body after a transform failure,
\* the transformed events after a formatInput failure, and the raw body text or
\* the error envelope after a serialization failure.
C32_OneFetchPerCall ==
    (fetchRun # <<>> /\ fetchRun.at = "returned") =>
        /\ Len(fetchRun.fetches) = 1
        /\ ~ForCollector(fetchEnv) => fetchRun.fetches[1] = PassThrough
        /\ ForCollector(fetchEnv) =>
               /\ fetchRun.fetches[1].url = "outboundUrl"
               /\ fetchRun.fetches[1].init.method = "POST"
               /\ StatedPost(fetchEnv, fetchRun, fetchRun.fetches[1].init.body)


\* C33: setup() is idempotent.  A setup() of an installed instance adds no
\* listener and changes neither window.onerror nor the saved original, and a
\* teardown() after it puts back the handler that the first setup() saved and
\* removes the listeners.
C33_SetupIdempotent ==
    /\ [][handlerOp'.op = "setup again" =>
              UNCHANGED <<onerror, errorListeners, rejectionListeners, installed,
                          origOnError>>]_vars
    /\ [][(handlerOp.op = "setup again" /\ handlerOp'.op = "teardown"
               /\ handlerOp'.k = handlerOp.k) =>
              /\ onerror' = origOnError[handlerOp.k]
              /\ handlerOp.k \notin errorListeners' \cup rejectionListeners']_vars

\* C33 witness: setup() was called on an instance that is installed, alone on
\* the page: window still has its one listener, window.onerror is its wrapper
\* and the saved original is the page's handler, not the wrapper
C33_Witness ==
    /\ handlerOp.op = "setup again"
    /\ installed[handlerOp.k]
    /\ errorListeners = {handlerOp.k} /\ rejectionListeners = {handlerOp.k}
    /\ onerror = handlerOp.k
    /\ origOnError[handlerOp.k] = PageOnError


C35_RejectedCallsCount ==
    /\ [][nCalls' = nCalls + 1 =>
              /\ ~lastReturn' => recentErrors' = recentErrors
              /\ countInWindow' =
                     (IF windowStart' = windowStart THEN countInWindow ELSE 0) + 1
              /\ (~lastReturn' /\ windowStart' = windowStart) =>
                     countInWindow' - truesInWindow' = countInWindow - truesInWindow + 1]_vars
    /\ [](countInWindow >= truesInWindow)

\* a call rejected by de-duplication alone: the window was not full, the key
\* keeps the time of its last report, and the call was counted though not sent
C35_Witness ==
    /\ lastKey # "" /\ ~lastReturn
    /\ ~overLimit(countInWindow, cfg.rateLimitPerMinute)
    /\ prevTrueAt # 0 /\ now > prevTrueAt
    /\ mapGet(recentErrors, lastKey) = prevTrueAt
    /\ countInWindow = truesInWindow + 1


\* the callback invocations that notify made for call k among those of a step
notifyReports(k, made) ==
    SelectSeq(made, LAMBDA c : c.via = "notify" /\ c.listener = k)

\* C36: the router listener never reports the same route twice in a row. A
\* notify that finds the normalized location equal to lastUrl invokes no
\* callback; one that finds it changed invokes it once with the route left,
\* lastUrl being the new route already while the callback runs; after a
\* notification, by popstate or hashchange, by locationchange or by the timer
\* of a click, lastUrl is the normalized location; and lastUrl changes at no
\* other time. So each report is of the route the report before it arrived at:
\* two reports that follow each other are never of the same route, which is
\* also stated for two notifications in successive steps.
C36_NoRepeatedRoute ==
    /\ [](\A n \in 1..Len(calls) :
            calls[n].via = "notify" =>
                /\ calls[n].newUrl # calls[n].oldUrl
                /\ calls[n].args[1] = calls[n].oldUrl
                /\ calls[n].lastUrlSeen = calls[n].newUrl
                /\ lastUrl[calls[n].listener] = calls[n].newUrl
                /\ calls[n].newUrl = normalizePath(href))
    /\ [](lastEvent = "popstate" => \A k \in Active : lastUrl[k] = normalizePath(href))
    /\ []((lastEvent = "pushState" /\ dispatches(pushState)) =>
              \A k \in Active : lastUrl[k] = normalizePath(href))
    /\ []((lastEvent = "replaceState" /\ dispatches(replaceState)) =>
              \A k \in Active : lastUrl[k] = normalizePath(href))
    /\ [][\A k \in Listeners :
              /\ (k \in timers /\ k \notin timers') => lastUrl'[k] = normalizePath(href')
              /\ lastUrl'[k] = lastUrl[k] => notifyReports(k, calls') = <<>>
              /\ (lastUrl'[k] # lastUrl[k] /\ listenerState[k] # "none") =>
                     /\ Len(notifyReports(k, calls')) = 1
                     /\ notifyReports(k, calls')[1].args = <<lastUrl[k]>>
              /\ (notifyReports(k, calls) # <<>> /\ notifyReports(k, calls') # <<>>) =>
                     notifyReports(k, calls')[1].args # notifyReports(k, calls)[1].args]_vars

\* the timer of a click has fired for the first call after the location moved
\* to a hash route: notify reported the route left, once, and lastUrl is the
\* route of the hash without its query
C36_Witness ==
    /\ lastEvent = "timeout"
    /\ href.hash = "#/c?x=1"
    /\ Len(calls) = 1
    /\ calls[1].via = "notify" /\ calls[1].listener = 1
    /\ calls[1].args[1] \in {"/a", "/b"}
    /\ calls[1].lastUrlSeen = "/c"
    /\ lastUrl[1] = "/c"

====
